---- MODULE Spec2Model ----
(***************************************************************************)
(* SafeTransit backend: the location resolution and ranking engine.        *)
(*                                                                         *)
(*   - pickup-point store   (PickupPointRepository: createSuggestion,      *)
(*                           verify, recordUse)                            *)
(*   - reverse geocoding    (api/locations/reverse.ts + LocationRepository *)
(*                           findByCoordinates / cacheReverseGeocode)      *)
(*   - forward search       (api/locations/search.ts + searchRanking.ts)   *)
(*   - coordinate validator (services/coordinateValidator.ts)              *)
(*                                                                         *)
(* Conventions.  A JavaScript string is a sequence of one-character        *)
(* strings.  A coordinate is an integer number of 1e-7 degrees (E7), so    *)
(* 14.6186 degrees is 146186000.  An optional value (undefined / NULL) is  *)
(* the empty sequence and a present value v is <<v>>.  Timestamps are      *)
(* readings of the clock variable now.                                     *)
(***************************************************************************)
EXTENDS Integers, Sequences, FiniteSets, TLC

VARIABLES points, now, locations, rreq, sreq, vreq

pickupVars == <<points, now>>
reverseVars == <<locations, rreq>>
searchVars == <<sreq>>
validateVars == <<vreq>>
vars == <<points, now, locations, rreq, sreq, vreq>>

(***************************************************************************)
(* Generic helpers                                                         *)
(***************************************************************************)
None == <<>>
Some(v) == <<v>>
IsSome(o) == o # <<>>

\* A JavaScript number that is NaN is None; a finite one is Some(E7 value).
NaN == <<>>

Abs(v) == IF v < 0 THEN -v ELSE v
Min2(a, b) == IF a <= b THEN a ELSE b

RECURSIVE Pow10(_)
Pow10(k) == IF k = 0 THEN 1 ELSE 10 * Pow10(k - 1)

DigitChars == <<"0", "1", "2", "3", "4", "5", "6", "7", "8", "9">>
IsDigit(c) == c \in {"0", "1", "2", "3", "4", "5", "6", "7", "8", "9"}
DigitVal(c) ==
    CASE c = "0" -> 0 [] c = "1" -> 1 [] c = "2" -> 2 [] c = "3" -> 3 [] c = "4" -> 4
      [] c = "5" -> 5 [] c = "6" -> 6 [] c = "7" -> 7 [] c = "8" -> 8 [] c = "9" -> 9

\* The decimal digits of a natural number, no leading zeros.
RECURSIVE NatToStr(_)
NatToStr(n) ==
    IF n < 10 THEN <<DigitChars[n + 1]>>
    ELSE NatToStr(n \div 10) \o <<DigitChars[(n % 10) + 1]>>

\* Exactly k decimal digits of n, zero-padded on the left.
RECURSIVE PadDigits(_, _)
PadDigits(n, k) ==
    IF k = 0 THEN <<>>
    ELSE PadDigits(n \div 10, k - 1) \o <<DigitChars[(n % 10) + 1]>>

\* Faulty variant of toFixed: the digits are truncated instead of rounded.
toFixedTruncating(v, digits) ==
    LET scale == Pow10(7 - digits)
        n == Abs(v) \div scale
        body == NatToStr(n \div Pow10(digits)) \o <<".">>
                    \o PadDigits(n % Pow10(digits), digits)
    IN  IF v < 0 THEN <<"-">> \o body ELSE body

\* Number.prototype.toFixed(digits) of the E7 value v: the sign is taken
\* first ("-" for every negative number, also when the digits are all 0),
\* then the magnitude is rounded to the nearest multiple of 10^-digits.
toFixed(v, digits) ==
    LET scale == Pow10(7 - digits)
        n == (Abs(v) + scale \div 2) \div scale
        body == NatToStr(n \div Pow10(digits)) \o <<".">>
                    \o PadDigits(n % Pow10(digits), digits)
    IN  IF v < 0 THEN <<"-">> \o body ELSE body

\* The number of digit characters of s from index i on.
RECURSIVE DigitRun(_, _)
DigitRun(s, i) ==
    IF i <= Len(s) /\ IsDigit(s[i]) THEN 1 + DigitRun(s, i + 1) ELSE 0

\* The value of the n digit characters of s from index i on.
RECURSIVE DigitsValue(_, _, _)
DigitsValue(s, i, n) ==
    IF n = 0 THEN 0
    ELSE 10 * DigitsValue(s, i, n - 1) + DigitVal(s[i + n - 1])

\* parseFloat(s): optional sign, digits, optional fraction; NaN when no
\* digit is found.  The value is kept to 7 decimals.
parseFloat(s) ==
    LET neg == Len(s) >= 1 /\ s[1] = "-"
        start == IF Len(s) >= 1 /\ s[1] \in {"-", "+"} THEN 2 ELSE 1
        nInt == DigitRun(s, start)
        dot == start + nInt
        hasDot == dot <= Len(s) /\ s[dot] = "."
        nFrac == IF hasDot THEN DigitRun(s, dot + 1) ELSE 0
        kept == Min2(nFrac, 7)
        mag == DigitsValue(s, start, nInt) * Pow10(7)
                 + DigitsValue(s, dot + 1, kept) * Pow10(7 - kept)
    IN  IF nInt = 0 /\ nFrac = 0 THEN NaN
        ELSE Some(IF neg THEN -mag ELSE mag)

\* SQL ROUND(x::numeric, digits): half away from zero, as an E7 value.
RoundNumeric(v, digits) ==
    LET scale == Pow10(7 - digits)
        n == ((Abs(v) + scale \div 2) \div scale) * scale
    IN  IF v < 0 THEN -n ELSE n

\* a || b on optional strings: undefined and "" are falsy.
Truthy(o) == o # None /\ o[1] # <<>>
OrElse(a, b) == IF Truthy(a) THEN a ELSE b

\* a || d on an optional tag (type, source), kept as a TLA+ string.
TagOr(o, d) == IF o # None /\ o[1] # "" THEN o[1] ELSE d

\* toFixed and parseFloat on a number that may be NaN.
NumToFixed(x, digits) == IF x = NaN THEN <<"N", "a", "N">> ELSE toFixed(x[1], digits)

\* Array.prototype.join(sep) of a sequence of strings.
RECURSIVE Join(_, _)
Join(parts, sep) ==
    IF Len(parts) = 0 THEN <<>>
    ELSE IF Len(parts) = 1 THEN parts[1]
    ELSE parts[1] \o sep \o Join(Tail(parts), sep)

\* [..].filter(Boolean) of a sequence of optional strings.
RECURSIVE FilterTruthy(_)
FilterTruthy(parts) ==
    IF Len(parts) = 0 THEN <<>>
    ELSE IF Truthy(parts[1]) THEN <<parts[1][1]>> \o FilterTruthy(Tail(parts))
    ELSE FilterTruthy(Tail(parts))

\* s.split(',')[0]
RECURSIVE FirstCommaPart(_)
FirstCommaPart(s) ==
    IF Len(s) = 0 \/ s[1] = "," THEN <<>>
    ELSE <<s[1]>> \o FirstCommaPart(Tail(s))

\* String.prototype.trim() for the blank character.
RECURSIVE TrimLeft(_)
TrimLeft(s) == IF Len(s) > 0 /\ s[1] = " " THEN TrimLeft(Tail(s)) ELSE s
RECURSIVE TrimRight(_)
TrimRight(s) ==
    IF Len(s) > 0 /\ s[Len(s)] = " " THEN TrimRight(SubSeq(s, 1, Len(s) - 1)) ELSE s
Trim(s) == TrimRight(TrimLeft(s))

(***************************************************************************)
(* Pickup-point store                                                      *)
(***************************************************************************)
\* Bounds of the pickup-point model.
MaxPoints == 2
MaxClock == 6

\* WHEN verification_count + 1 >= 3
VerifyThreshold == 3

UserIds == {"u1", "u2"}
VerifiedByValues == {"system", "user", "admin"}

\* The inputs of createSuggestion that the verification columns read:
\* PickupPointInsert.verified?: boolean and verified_by?: 'system'|'user'|'admin'|null.
SuggestionInputs ==
    [verified : {None, Some(TRUE), Some(FALSE)},
     verified_by : {None, Some("admin")}]

\* Column defaults of pickup_points for the columns the INSERT of
\* createSuggestion does not list.
PickupPointDefaults ==
    [verified_at |-> None,
     verification_count |-> 0,
     use_count |-> 0,
     last_used_at |-> None]

\* ${data.verified || false}
VerifiedOrFalse(data) ==
    IF IsSome(data.verified) /\ data.verified[1] THEN TRUE ELSE FALSE

\* ${data.verified_by || 'user'}
VerifiedByOrUser(data) ==
    IF IsSome(data.verified_by) THEN data.verified_by[1] ELSE "user"

\* The row INSERT INTO pickup_points ... RETURNING * creates.
NewPickupPoint(data) ==
    [verified |-> VerifiedOrFalse(data),
     verified_by |-> VerifiedByOrUser(data),
     verified_at |-> PickupPointDefaults.verified_at,
     verification_count |-> PickupPointDefaults.verification_count,
     use_count |-> PickupPointDefaults.use_count,
     last_used_at |-> PickupPointDefaults.last_used_at]

\* Faulty variant of VerifyRow: the verified flag is raised one confirmation early.
VerifyRowEarly(p, t) ==
    [p EXCEPT
        !.verification_count = p.verification_count + 1,
        !.verified = IF p.verification_count + 1 >= VerifyThreshold - 1
                     THEN TRUE ELSE p.verified,
        !.verified_at = IF p.verification_count + 1 >= VerifyThreshold - 1
                           /\ p.verified = FALSE
                        THEN Some(t) ELSE p.verified_at,
        !.verified_by = IF p.verification_count + 1 >= VerifyThreshold - 1
                           /\ p.verified = FALSE
                        THEN "user" ELSE p.verified_by]

\* Faulty variant of VerifyRow: the stamp is rewritten by every confirmation at or
\* past the threshold (the "AND verified = FALSE" guard is lost).
VerifyRowRestamp(p, t) ==
    [p EXCEPT
        !.verification_count = p.verification_count + 1,
        !.verified = IF p.verification_count + 1 >= VerifyThreshold
                     THEN TRUE ELSE p.verified,
        !.verified_at = IF p.verification_count + 1 >= VerifyThreshold
                        THEN Some(t) ELSE p.verified_at,
        !.verified_by = IF p.verification_count + 1 >= VerifyThreshold
                        THEN "user" ELSE p.verified_by]

\* The SET clause of verify's UPDATE; every right-hand side reads the row
\* as it was before the statement.  t is NOW().
VerifyRow(p, t) ==
    [p EXCEPT
        !.verification_count = p.verification_count + 1,
        !.verified = IF p.verification_count + 1 >= VerifyThreshold
                     THEN TRUE ELSE p.verified,
        !.verified_at = IF p.verification_count + 1 >= VerifyThreshold
                           /\ p.verified = FALSE
                        THEN Some(t) ELSE p.verified_at,
        !.verified_by = IF p.verification_count + 1 >= VerifyThreshold
                           /\ p.verified = FALSE
                        THEN "user" ELSE p.verified_by]

\* Faulty variant of RecordUseRow: a selection also counts as a
\* confirmation.
RecordUseRowConfirms(p, t) ==
    [p EXCEPT !.use_count = p.use_count + 1, !.last_used_at = Some(t),
              !.verification_count = p.verification_count + 1]

\* The SET clause of recordUse's UPDATE.
RecordUseRow(p, t) ==
    [p EXCEPT !.use_count = p.use_count + 1, !.last_used_at = Some(t)]

InitPickup ==
    /\ points = <<>>
    /\ now = 0

\* PickupPointRepository.createSuggestion(data); sqlOk = FALSE is the
\* statement throwing (caught, null returned, nothing inserted).
createSuggestion(data, sqlOk) ==
    /\ Len(points) < MaxPoints
    /\ now < MaxClock
    /\ now' = now + 1
    /\ points' = IF sqlOk THEN Append(points, NewPickupPoint(data)) ELSE points
    /\ UNCHANGED <<reverseVars, searchVars, validateVars>>

\* PickupPointRepository.verify(id, userId): one UPDATE ... WHERE id = ${id}.
\* The statement does not read userId.  An id without a row updates nothing.
verify(id, userId, sqlOk) ==
    /\ now < MaxClock
    /\ now' = now + 1
    /\ points' = IF sqlOk
                 THEN [i \in DOMAIN points |->
                         IF i = id THEN VerifyRow(points[i], now') ELSE points[i]]
                 ELSE points
    /\ UNCHANGED <<reverseVars, searchVars, validateVars>>

\* PickupPointRepository.recordUse(id): one UPDATE ... WHERE id = ${id}.
recordUse(id, sqlOk) ==
    /\ now < MaxClock
    /\ now' = now + 1
    /\ points' = IF sqlOk
                 THEN [i \in DOMAIN points |->
                         IF i = id THEN RecordUseRow(points[i], now') ELSE points[i]]
                 ELSE points
    /\ UNCHANGED <<reverseVars, searchVars, validateVars>>

CreateSuggestionStep == \E data \in SuggestionInputs, ok \in BOOLEAN : createSuggestion(data, ok)
VerifyStep == \E id \in 1..MaxPoints, u \in UserIds, ok \in BOOLEAN : verify(id, u, ok)
RecordUseStep == \E id \in 1..MaxPoints, ok \in BOOLEAN : recordUse(id, ok)

NextPickup ==
    \/ CreateSuggestionStep
    \/ VerifyStep
    \/ RecordUseStep

(***************************************************************************)
(* Reverse geocoding: api/locations/reverse.ts                             *)
(***************************************************************************)
\* Bound: the number of reverse-geocode requests in flight or answered.
MaxRequests == 2

\* const COORD_PRECISION = 4
COORD_PRECISION == 4

SelectedLocation ==
    <<"S", "e", "l", "e", "c", "t", "e", "d", " ", "L", "o", "c", "a", "t", "i", "o", "n">>
UnknownLocation ==
    <<"U", "n", "k", "n", "o", "w", "n", " ", "L", "o", "c", "a", "t", "i", "o", "n">>

\* Query inputs (parseFloat of req.query.lat / lon): NaN, out of range, and
\* in-range coordinates: one that rounds up to 14.6186,121.0567 (and would
\* truncate to 14.6185,121.0566), and one just south of the equator on the
\* antimeridian.
ReverseQueries ==
    { <<NaN, Some(1210567000)>>,
      <<Some(900000001), Some(1210567000)>>,
      <<Some(146185787), Some(1210566871)>>,
      <<Some(-213), Some(1800000000)>> }

\* Photon features (data.features[0]) the provider may answer with.
PhotonFeatures ==
    { [properties |-> [osm_id |-> 101, name |-> Some(<<"S", "M">>), street |-> None,
                       housenumber |-> None, district |-> None, locality |-> None,
                       city |-> Some(<<"Q", "C">>), country |-> None,
                       type |-> Some("mall")],
       geometry |-> Some([coordinates |-> <<1210567000, 146186000>>])],
      [properties |-> [osm_id |-> 0, name |-> None, street |-> Some(<<"A">>),
                       housenumber |-> Some(<<"7">>), district |-> None,
                       locality |-> Some(<<"L">>), city |-> None, country |-> None,
                       type |-> None],
       geometry |-> Some([coordinates |-> <<1210567000, 146186787>>])],
      [properties |-> [osm_id |-> 103, name |-> Some(<<"S", "M">>), street |-> None,
                       housenumber |-> None, district |-> None, locality |-> None,
                       city |-> None, country |-> None, type |-> None],
       geometry |-> None] }

\* What one call of fetch + response.json() can do.  "timeout" is the abort
\* after 5 s, "network_error" a rejected fetch, "http_error" a response with
\* ok = false, "bad_json" a body json() rejects.
FailureKinds == {"timeout", "network_error", "http_error", "bad_json"}

PhotonOutcomes ==
    [kind : FailureKinds, features : {None}]
    \cup [kind : {"ok"}, features : {None, Some(<<>>)}]
    \cup {[kind |-> "ok", features |-> Some(<<f>>)] : f \in PhotonFeatures}

\* Nominatim places (the body of /reverse) the provider may answer with.
NominatimPlaces ==
    { [place_id |-> 201,
       display_name |-> <<"B", ",", " ", "Q", "C">>,
       lat |-> <<"1", "4", ".", "6", "1", "8", "6">>,
       lon |-> <<"1", "2", "1", ".", "0", "5", "6", "7">>,
       type |-> Some("mall"),
       address |-> Some([road |-> None, suburb |-> None, city |-> Some(<<"Q", "C">>),
                         municipality |-> None, building |-> Some(<<"S", "M">>),
                         amenity |-> None, shop |-> None, tourism |-> None,
                         office |-> None])],
      [place_id |-> 202,
       display_name |-> <<" ", "R", " ", ",", "Q", "C">>,
       lat |-> <<"1", "4", ".", "6", "1", "8", "6", "7", "8", "7">>,
       lon |-> <<"1", "2", "1", ".", "0", "5", "6", "7">>,
       type |-> None,
       address |-> Some([road |-> Some(<<"R">>), suburb |-> None,
                         city |-> Some(<<"Q", "C">>), municipality |-> None,
                         building |-> None, amenity |-> None, shop |-> None,
                         tourism |-> None, office |-> None])],
      [place_id |-> 203,
       display_name |-> <<>>,
       lat |-> <<"0">>, lon |-> <<"0">>, type |-> None, address |-> None] }

NominatimOutcomes ==
    [kind : FailureKinds, place : {None}]
    \cup {[kind |-> "ok", place |-> None]}
    \cup {[kind |-> "ok", place |-> Some(pl)] : pl \in NominatimPlaces}

\* getShortName(place)
getShortName(place) ==
    LET firstPart == Trim(FirstCommaPart(place.display_name))
    IN  IF IsSome(place.address)
        THEN LET a == place.address[1]
                 area == OrElse(a.suburb, OrElse(a.city, a.municipality))
             IN  IF Truthy(a.building) /\ a.building[1] # firstPart THEN a.building[1]
                 ELSE IF Truthy(a.amenity) THEN a.amenity[1]
                 ELSE IF Truthy(a.shop) THEN a.shop[1]
                 ELSE IF Truthy(a.tourism) THEN a.tourism[1]
                 ELSE IF Truthy(a.office) THEN a.office[1]
                 ELSE IF Truthy(a.road)
                      THEN IF Truthy(area) /\ area[1] # a.road[1]
                           THEN a.road[1] \o <<",", " ">> \o area[1]
                           ELSE a.road[1]
                 ELSE IF Truthy(a.suburb) THEN a.suburb[1]
                 ELSE IF Truthy(a.city) THEN a.city[1]
                 ELSE IF Truthy(a.municipality) THEN a.municipality[1]
                 ELSE firstPart
        ELSE firstPart

\* reverseGeocodePhoton(latitude, longitude): the Location built from the
\* provider's answer, or null (None).  The try/catch turns every rejection
\* and every TypeError of the body into null.
reverseGeocodePhoton(out, clock) ==
    IF out.kind # "ok" THEN None
    ELSE IF out.features = None \/ Len(out.features[1]) = 0 THEN None
    ELSE LET feature == out.features[1][1]
             properties == feature.properties
             name == OrElse(properties.name,
                     OrElse(properties.street,
                     OrElse(properties.district,
                     OrElse(properties.city, Some(UnknownLocation)))))[1]
             addressParts ==
                 FilterTruthy(<<
                     IF Truthy(properties.housenumber) /\ Truthy(properties.street)
                     THEN Some(properties.housenumber[1] \o <<" ">> \o properties.street[1])
                     ELSE properties.street,
                     OrElse(properties.district, properties.locality),
                     properties.city,
                     properties.country >>)
             address == IF Len(addressParts) > 0
                        THEN Join(addressParts, <<",", " ">>) ELSE name
         IN  IF feature.geometry = None THEN None
             ELSE Some([id |-> <<"photon_",
                                 IF properties.osm_id # 0 THEN properties.osm_id ELSE clock>>,
                        name |-> name,
                        address |-> address,
                        latitude |-> Some(feature.geometry[1].coordinates[2]),
                        longitude |-> Some(feature.geometry[1].coordinates[1]),
                        type |-> TagOr(properties.type, "general"),
                        source |-> "photon"])

\* reverseGeocodeNominatim(latitude, longitude)
reverseGeocodeNominatim(out) ==
    IF out.kind # "ok" THEN None
    ELSE IF out.place = None \/ out.place[1].display_name = <<>> THEN None
    ELSE LET place == out.place[1]
         IN  Some([id |-> <<"nominatim_", place.place_id>>,
                   name |-> getShortName(place),
                   address |-> place.display_name,
                   latitude |-> parseFloat(place.lat),
                   longitude |-> parseFloat(place.lon),
                   type |-> TagOr(place.type, "general"),
                   source |-> "nominatim"])

\* LocationRepository.findByCoordinates(latitude, longitude, precision):
\* the rows the WHERE clause selects (LIMIT 1 without ORDER BY returns any
\* one of them).  ROUND of NaN is NaN and NaN = NaN holds for numeric.
findByCoordinates(rows, latitude, longitude, precision) ==
    LET lat == parseFloat(NumToFixed(latitude, precision))
        lon == parseFloat(NumToFixed(longitude, precision))
        Rounded(x) == IF x = NaN THEN NaN ELSE Some(RoundNumeric(x[1], precision))
    IN  { i \in DOMAIN rows :
            /\ Rounded(rows[i].latitude) = Rounded(lat)
            /\ Rounded(rows[i].longitude) = Rounded(lon) }

\* LocationRepository.findByDetails(name, address)
findByDetails(rows, name, address) ==
    { i \in DOMAIN rows : rows[i].name = name /\ rows[i].address = address }

\* LocationRepository.create(data): the row INSERT ... RETURNING * adds.
create(rows, data) ==
    Append(rows, [id |-> <<"loc_", Len(rows) + 1>>,
                  name |-> data.name,
                  address |-> data.address,
                  latitude |-> data.latitude,
                  longitude |-> data.longitude,
                  type |-> data.type])

\* The argument the handler passes to cacheReverseGeocode.
CacheData(result) ==
    [name |-> result.name,
     address |-> result.address,
     latitude |-> result.latitude,
     longitude |-> result.longitude,
     type |-> TagOr(Some(result.type), "general")]

\* The body of the cache-hit answer.
CacheHitBody(cached) ==
    [id |-> cached.id,
     name |-> cached.name,
     address |-> cached.address,
     latitude |-> cached.latitude,
     longitude |-> cached.longitude,
     type |-> cached.type,
     source |-> "cache"]

\* Faulty variant of FallbackBody: the address is echoed with the cache
\* precision instead of 6 decimals.
FallbackBodyShortEcho(latitude, longitude) ==
    [id |-> <<"coord_", toFixed(latitude, COORD_PRECISION),
                        toFixed(longitude, COORD_PRECISION)>>,
     name |-> SelectedLocation,
     address |-> toFixed(latitude, COORD_PRECISION) \o <<",", " ">>
                    \o toFixed(longitude, COORD_PRECISION),
     latitude |-> Some(latitude),
     longitude |-> Some(longitude),
     type |-> "pin_drop",
     source |-> "fallback"]

\* The body of the answer when both providers gave nothing.
FallbackBody(latitude, longitude) ==
    [id |-> <<"coord_", toFixed(latitude, COORD_PRECISION),
                        toFixed(longitude, COORD_PRECISION)>>,
     name |-> SelectedLocation,
     address |-> toFixed(latitude, 6) \o <<",", " ">> \o toFixed(longitude, 6),
     latitude |-> Some(latitude),
     longitude |-> Some(longitude),
     type |-> "pin_drop",
     source |-> "fallback"]

\* Faulty variant of ErrorFallbackResponse: the catch answers with an error.
ErrorFallbackResponse500(latitude, longitude, clock) ==
    [status |-> 500, body |-> [error |-> "Internal server error"]]

\* The answer of the handler's outer catch.
ErrorFallbackResponse(latitude, longitude, clock) ==
    [status |-> 200,
     body |-> [id |-> <<"error_", clock>>,
               name |-> SelectedLocation,
               address |-> toFixed(latitude, 6) \o <<",", " ">> \o toFixed(longitude, 6),
               latitude |-> Some(latitude),
               longitude |-> Some(longitude),
               type |-> "pin_drop",
               source |-> "error_fallback"]]

\* What the environment did at a stage, recorded beside the stage's name in
\* the request's log (calls): the cache lookup, the two providers, the call
\* of cacheReverseGeocode and a completed insert are logged.  These read
\* the environment's answer only.
PhotonGave(out) ==
    IF out.kind = "ok" /\ out.features # None /\ Len(out.features[1]) > 0
       /\ out.features[1][1].geometry # None
    THEN "place" ELSE "none"

NominatimGave(out) ==
    IF out.kind = "ok" /\ out.place # None /\ out.place[1].display_name # <<>>
    THEN "place" ELSE "none"

\* The rows whose coordinates, rounded to 4 decimal degrees, equal the
\* rounded coordinates of the query.
RowsAtRoundedCoordinate(rows, latitude, longitude) ==
    { i \in DOMAIN rows :
        /\ rows[i].latitude # NaN /\ rows[i].longitude # NaN
        /\ RoundNumeric(rows[i].latitude[1], 4) = RoundNumeric(latitude, 4)
        /\ RoundNumeric(rows[i].longitude[1], 4) = RoundNumeric(longitude, 4) }

LookupGave(rows, latitude, longitude, dbOk) ==
    IF ~dbOk THEN "error"
    ELSE IF RowsAtRoundedCoordinate(rows, latitude, longitude) # {} THEN "hit"
    ELSE "miss"

IdleRequest ==
    [pc |-> "idle", latitude |-> NaN, longitude |-> NaN,
     result |-> None, response |-> None, calls |-> <<>>]

InitReverse ==
    /\ locations = <<>>
    /\ rreq = [r \in 1..MaxRequests |-> IdleRequest]

\* res.status(..).json(..): the request r, as req, is answered.
Answered(req, status, body) ==
    [req EXCEPT !.pc = "done", !.response = Some([status |-> status, body |-> body])]

Logged(req, stage, gave) == [req EXCEPT !.calls = Append(@, <<stage, gave>>)]

\* Faulty variant of ValidCoordinates: the range check is lost.
ValidCoordinatesAnyRange(latitude, longitude) ==
    latitude # NaN /\ longitude # NaN

\* Lines 81-89: neither coordinate is NaN and both are in range.
ValidCoordinates(latitude, longitude) ==
    /\ ~(latitude = NaN \/ longitude = NaN)
    /\ ~(latitude[1] < -900000000 \/ latitude[1] > 900000000
         \/ longitude[1] < -1800000000 \/ longitude[1] > 1800000000)

\* Lines 75-89: the coordinates are parsed and validated.
ReceiveReverse(r, q) ==
    /\ rreq[r].pc = "idle"
    /\ \A k \in 1..(r - 1) : rreq[k].pc # "idle"
    /\ LET req == [rreq[r] EXCEPT !.latitude = q[1], !.longitude = q[2]]
       IN  IF q[1] = NaN \/ q[2] = NaN
           THEN rreq' = [rreq EXCEPT ![r] =
                           Answered(req, 400, [error |-> "Invalid coordinates"])]
           ELSE IF ~ValidCoordinates(q[1], q[2])
           THEN rreq' = [rreq EXCEPT ![r] =
                           Answered(req, 400, [error |-> "Coordinates out of range"])]
           ELSE rreq' = [rreq EXCEPT ![r] = [req EXCEPT !.pc = "lookup"]]
    /\ UNCHANGED <<locations, pickupVars, searchVars, validateVars>>

\* Faulty variant of CacheLookup: a lookup that throws is taken for a miss
\* and the request goes on to provider A.
CacheLookupFailureAsMiss(r, dbOk) ==
    /\ rreq[r].pc = "lookup"
    /\ LET hits == findByCoordinates(locations, rreq[r].latitude, rreq[r].longitude,
                                     COORD_PRECISION)
           req == Logged(rreq[r], "cache_lookup",
                         LookupGave(locations, rreq[r].latitude[1],
                                    rreq[r].longitude[1], dbOk))
       IN  IF dbOk /\ hits # {}
           THEN \E i \in hits :
                   rreq' = [rreq EXCEPT ![r] =
                              Answered(req, 200, CacheHitBody(locations[i]))]
           ELSE rreq' = [rreq EXCEPT ![r] = [req EXCEPT !.pc = "photon"]]
    /\ UNCHANGED <<locations, pickupVars, searchVars, validateVars>>

\* Lines 92-104: the cache lookup.  dbOk = FALSE is the query throwing,
\* which the outer catch answers.
CacheLookup(r, dbOk) ==
    /\ rreq[r].pc = "lookup"
    /\ LET hits == findByCoordinates(locations, rreq[r].latitude, rreq[r].longitude,
                                     COORD_PRECISION)
           err == ErrorFallbackResponse(rreq[r].latitude[1], rreq[r].longitude[1], now)
           req == Logged(rreq[r], "cache_lookup",
                         LookupGave(locations, rreq[r].latitude[1],
                                    rreq[r].longitude[1], dbOk))
       IN  IF ~dbOk
           THEN rreq' = [rreq EXCEPT ![r] = Answered(req, err.status, err.body)]
           ELSE IF hits # {}
           THEN \E i \in hits :
                   rreq' = [rreq EXCEPT ![r] =
                              Answered(req, 200, CacheHitBody(locations[i]))]
           ELSE rreq' = [rreq EXCEPT ![r] = [req EXCEPT !.pc = "photon"]]
    /\ UNCHANGED <<locations, pickupVars, searchVars, validateVars>>

\* Faulty variant of AfterPhoton: provider B is tried whatever provider A gave.
AfterPhotonAlwaysNominatim(result) == "nominatim"

\* Lines 109-111: provider B is tried only if provider A gave null.
AfterPhoton(result) ==
    IF result = None THEN "nominatim" ELSE "cache_find_coords"

\* Line 107: provider A.
PhotonReverse(r, out) ==
    /\ rreq[r].pc = "photon"
    /\ LET result == reverseGeocodePhoton(out, now)
           req == Logged(rreq[r], "photon", PhotonGave(out))
       IN  rreq' = [rreq EXCEPT ![r] =
                      [req EXCEPT !.pc = AfterPhoton(result), !.result = result]]
    /\ UNCHANGED <<locations, pickupVars, searchVars, validateVars>>

\* Lines 109-124: provider B, then the fallback pin when it gave nothing.
\* When provider A had a result it is kept (line 109 skips the call).
NominatimReverse(r, out) ==
    /\ rreq[r].pc = "nominatim"
    /\ LET result == reverseGeocodeNominatim(out)
           req == Logged(rreq[r], "nominatim", NominatimGave(out))
       IN  IF result = None
           THEN rreq' = [rreq EXCEPT ![r] =
                           Answered(req, 200,
                                    FallbackBody(rreq[r].latitude[1],
                                                 rreq[r].longitude[1]))]
           ELSE rreq' = [rreq EXCEPT ![r] =
                           [req EXCEPT !.pc = "cache_find_coords", !.result = result]]
    /\ UNCHANGED <<locations, pickupVars, searchVars, validateVars>>

\* Lines 174 and 239: clearTimeout(timeout) runs as soon as fetch resolves,
\* which is when the response headers are in.  response.json() is then
\* awaited with no timer left: a body that never finishes arriving leaves
\* the request waiting for good.  (A call that gets no response at all is
\* the outcome "timeout" of PhotonReverse and NominatimReverse.)
BodyNeverArrives(r) ==
    /\ rreq[r].pc \in {"photon", "nominatim"}
    /\ rreq' = [rreq EXCEPT ![r].pc = IF @ = "photon" THEN "photon_body"
                                                       ELSE "nominatim_body"]
    /\ UNCHANGED <<locations, pickupVars, searchVars, validateVars>>

\* Faulty variant of CacheWriteFailed: the failure of the cache write
\* reaches the outer catch of the handler.
CacheWriteFailedFallback(req) ==
    LET err == ErrorFallbackResponse(req.latitude[1], req.longitude[1], now)
    IN  Answered(Logged(req, "cache_write", "failed"), err.status, err.body)

\* Handler lines 135-140: a throw of cacheReverseGeocode is caught and
\* logged, and the provider's result is answered.
CacheWriteFailed(req) ==
    Answered(Logged(req, "cache_write", "failed"), 200, req.result[1])

\* Lines 126-140 with cacheReverseGeocode lines 134-137: the first check of
\* the cache write.  A throw is caught by the inner catch and the provider's
\* result is answered.
CacheFindCoords(r, dbOk) ==
    /\ rreq[r].pc = "cache_find_coords"
    /\ LET data == CacheData(rreq[r].result[1])
           existing == findByCoordinates(locations, data.latitude, data.longitude, 4)
           req == Logged(rreq[r], "cache_write", "called")
       IN  IF ~dbOk
           THEN rreq' = [rreq EXCEPT ![r] = CacheWriteFailed(req)]
           ELSE IF existing # {}
           THEN rreq' = [rreq EXCEPT ![r] = Answered(req, 200, rreq[r].result[1])]
           ELSE rreq' = [rreq EXCEPT ![r] = [req EXCEPT !.pc = "cache_find_details"]]
    /\ UNCHANGED <<locations, pickupVars, searchVars, validateVars>>

\* cacheReverseGeocode lines 140-143: the second check of the cache write.
CacheFindDetails(r, dbOk) ==
    /\ rreq[r].pc = "cache_find_details"
    /\ LET data == CacheData(rreq[r].result[1])
           existingByName == findByDetails(locations, data.name, data.address)
       IN  IF ~dbOk
           THEN rreq' = [rreq EXCEPT ![r] = CacheWriteFailed(rreq[r])]
           ELSE IF existingByName # {}
           THEN rreq' = [rreq EXCEPT ![r] = Answered(rreq[r], 200, rreq[r].result[1])]
           ELSE rreq' = [rreq EXCEPT ![r].pc = "cache_create"]
    /\ UNCHANGED <<locations, pickupVars, searchVars, validateVars>>

\* cacheReverseGeocode line 146 and handler line 140: the insert, then the
\* answer.
CacheCreate(r, dbOk) ==
    /\ rreq[r].pc = "cache_create"
    /\ locations' = IF dbOk THEN create(locations, CacheData(rreq[r].result[1]))
                    ELSE locations
    /\ IF dbOk
       THEN rreq' = [rreq EXCEPT ![r] = Answered(Logged(rreq[r], "insert", "done"),
                                                 200, rreq[r].result[1])]
       ELSE rreq' = [rreq EXCEPT ![r] = CacheWriteFailed(rreq[r])]
    /\ UNCHANGED <<pickupVars, searchVars, validateVars>>

Requests == 1..MaxRequests

NextReverse ==
    \/ \E r \in Requests, q \in ReverseQueries : ReceiveReverse(r, q)
    \/ \E r \in Requests, dbOk \in BOOLEAN : CacheLookup(r, dbOk)
    \/ \E r \in Requests, out \in PhotonOutcomes : PhotonReverse(r, out)
    \/ \E r \in Requests, out \in NominatimOutcomes : NominatimReverse(r, out)
    \/ \E r \in Requests : BodyNeverArrives(r)
    \/ \E r \in Requests, dbOk \in BOOLEAN : CacheFindCoords(r, dbOk)
    \/ \E r \in Requests, dbOk \in BOOLEAN : CacheFindDetails(r, dbOk)
    \/ \E r \in Requests, dbOk \in BOOLEAN : CacheCreate(r, dbOk)

(***************************************************************************)
(* Forward search: api/locations/search.ts                                 *)
(***************************************************************************)
\* Bound: the number of entries one provider answer may hold.
MaxProviderResults == 2

\* if (localResults.length < 5)
LocalCoverage == 5

\* const limit = 10
SearchLimit == 10

\* A number field that is undefined (not NaN): reading .toFixed of it throws.
Undefined == <<0, 0>>

UpperChars == <<"A", "B", "C", "D", "E", "F", "G", "H", "I", "J", "K", "L", "M",
                "N", "O", "P", "Q", "R", "S", "T", "U", "V", "W", "X", "Y", "Z">>
LowerChars == <<"a", "b", "c", "d", "e", "f", "g", "h", "i", "j", "k", "l", "m",
                "n", "o", "p", "q", "r", "s", "t", "u", "v", "w", "x", "y", "z">>

LowerChar(c) ==
    IF \E k \in 1..26 : UpperChars[k] = c
    THEN LowerChars[CHOOSE k \in 1..26 : UpperChars[k] = c]
    ELSE c

\* String.prototype.toLowerCase()
toLowerCase(str) == [i \in DOMAIN str |-> LowerChar(str[i])]

\* The rows the Local Store holds for the query, in the order its ORDER BY
\* gives them.  The first two share their rounded coordinate and their
\* case-folded name.
LocalPool ==
    << [id |-> <<"loc_", 1>>, name |-> <<"S", "M">>, address |-> <<"Q", "C">>,
        latitude |-> Some(146186000), longitude |-> Some(1210567000),
        type |-> "mall", search_count |-> 9,
        distance_km |-> Undefined, text_score |-> None],
       [id |-> <<"loc_", 2>>, name |-> <<"S", "m">>, address |-> <<"Q", "C">>,
        latitude |-> Some(146186213), longitude |-> Some(1210566871),
        type |-> "mall", search_count |-> 0,
        distance_km |-> Undefined, text_score |-> None],
       [id |-> <<"loc_", 3>>, name |-> <<"S", "M", " ", "N">>, address |-> <<"Q", "C">>,
        latitude |-> Some(146560000), longitude |-> Some(1210320000),
        type |-> "mall", search_count |-> 999,
        distance_km |-> Undefined, text_score |-> None],
       [id |-> <<"loc_", 4>>, name |-> <<"A", " ", "s", "m">>, address |-> <<"M">>,
        latitude |-> Some(145350000), longitude |-> Some(1209820000),
        type |-> "general", search_count |-> 99,
        distance_km |-> Undefined, text_score |-> None],
       [id |-> <<"loc_", 5>>, name |-> <<"B">>, address |-> <<"s", "m">>,
        latitude |-> Some(145500000), longitude |-> Some(1210000000),
        type |-> "general", search_count |-> 0,
        distance_km |-> Undefined, text_score |-> None],
       [id |-> <<"loc_", 6>>, name |-> <<"C">>, address |-> <<"S", "M">>,
        latitude |-> Some(145600000), longitude |-> Some(1210100000),
        type |-> "general", search_count |-> 5000,
        distance_km |-> Undefined, text_score |-> None] >>

\* similarity(name, query) of the pool rows, in thousandths, as pg_trgm
\* gives it to searchWithProximity.
PoolSimilarity == <<1000, 1000, 500, 400, 320, 320>>

\* Photon features of a forward search.  The first repeats the name of the
\* first local row in another case, the second lies at its rounded
\* coordinate under another name, the third is named by the text of the
\* rounded coordinate of the third local row, and the last has an empty
\* coordinate pair.
SearchFeatures ==
    { [properties |-> [osm_id |-> 301, osm_type |-> Some("N"), name |-> Some(<<"s", "m">>),
                       street |-> None, district |-> None, locality |-> None,
                       city |-> Some(<<"Q", "C">>), country |-> None, type |-> None],
       geometry |-> Some([coordinates |-> <<Some(1210600000), Some(146300000)>>])],
      [properties |-> [osm_id |-> 302, osm_type |-> Some("W"), name |-> None,
                       street |-> Some(<<"G">>), district |-> None,
                       locality |-> Some(<<"L">>), city |-> None, country |-> None,
                       type |-> Some("street")],
       geometry |-> Some([coordinates |-> <<Some(1210566871), Some(146185787)>>])],
      [properties |-> [osm_id |-> 303, osm_type |-> None,
                       name |-> Some(<<"1", "4", ".", "6", "5", "6", "0", ",",
                                       "1", "2", "1", ".", "0", "3", "2", "0">>),
                       street |-> None, district |-> None, locality |-> None,
                       city |-> None, country |-> None, type |-> None],
       geometry |-> Some([coordinates |-> <<Some(1210700000), Some(146400000)>>])],
      [properties |-> [osm_id |-> 304, osm_type |-> None, name |-> Some(<<"H">>),
                       street |-> None, district |-> None, locality |-> None,
                       city |-> None, country |-> None, type |-> None],
       geometry |-> Some([coordinates |-> <<Undefined, Undefined>>])] }

\* Nominatim places of a forward search: the first is named like the first
\* local row (by its building), the second is new.
SearchPlaces ==
    { [place_id |-> 401,
       display_name |-> <<"B", ",", " ", "Q", "C">>,
       lat |-> <<"1", "4", ".", "6", "5">>,
       lon |-> <<"1", "2", "1", ".", "0", "3">>,
       type |-> Some("mall"),
       address |-> Some([road |-> None, suburb |-> None, city |-> Some(<<"Q", "C">>),
                         municipality |-> None, building |-> Some(<<"S", "M">>),
                         amenity |-> None, shop |-> None, tourism |-> None,
                         office |-> None])],
      [place_id |-> 402,
       display_name |-> <<" ", "R", " ", ",", "Q", "C">>,
       lat |-> <<"1", "4", ".", "6", "6", "0", "0", "4", "9">>,
       lon |-> <<"1", "2", "1", ".", "0", "4">>,
       type |-> None,
       address |-> None] }

RECURSIVE SeqsUpTo(_, _)
SeqsUpTo(S, n) ==
    IF n = 0 THEN {<<>>}
    ELSE LET shorter == SeqsUpTo(S, n - 1)
         IN  shorter \cup { Append(q, x) : q \in shorter, x \in S }

\* A full Photon answer: eight features with names and coordinates of
\* their own, so that a merged list can pass the limit of the answer.
FullPhotonAnswer ==
    [k \in 1..8 |->
        [properties |-> [osm_id |-> 500 + k, osm_type |-> Some("N"),
                         name |-> Some(<<"P", LowerChars[k]>>),
                         street |-> None, district |-> None, locality |-> None,
                         city |-> Some(<<"Q", "C">>), country |-> None, type |-> None],
         geometry |-> Some([coordinates |-> <<Some(1210000000 + k * 10000),
                                              Some(147000000 + k * 10000)>>])]]

\* What fetch + response.json() of a forward search can do.
SearchPhotonOutcomes ==
    [kind : {"network_error", "http_error", "bad_json"}, features : {<<>>}]
    \cup [kind : {"ok"},
          features : SeqsUpTo(SearchFeatures, MaxProviderResults) \cup {FullPhotonAnswer}]

\* A Nominatim place whose lat is not the text of a number.
UnlocatedPlace ==
    [place_id |-> 403,
     display_name |-> <<"U">>,
     lat |-> <<>>,
     lon |-> <<"1", "2", "1", ".", "0", "6">>,
     type |-> None,
     address |-> None]

\* A Nominatim answer of three places, the second of them unlocated.
UnlocatedAnswer ==
    << [UnlocatedPlace EXCEPT !.place_id = 404, !.display_name = <<"T">>,
                              !.lat = <<"1", "4", ".", "6", "2">>],
       UnlocatedPlace,
       [UnlocatedPlace EXCEPT !.place_id = 405, !.display_name = <<"V">>,
                              !.lat = <<"1", "4", ".", "6", "2">>,
                              !.lon = <<"1", "2", "1", ".", "0", "5">>] >>

SearchNominatimOutcomes ==
    [kind : {"network_error", "http_error", "bad_json"}, data : {<<>>}]
    \cup [kind : {"ok"},
          data : SeqsUpTo(SearchPlaces, MaxProviderResults) \cup {UnlocatedAnswer}]

\* The Location searchPhoton builds from data.features[index - 1].
PhotonLocation(feature, index) ==
    LET properties == feature.properties
        name == OrElse(properties.name,
                OrElse(properties.street,
                OrElse(properties.city, Some(UnknownLocation))))[1]
        addressParts == FilterTruthy(<< properties.street,
                                        OrElse(properties.district, properties.locality),
                                        properties.city,
                                        properties.country >>)
        address == Join(addressParts, <<",", " ">>)
    IN  [id |-> <<"photon_", properties.osm_id, index - 1>>,
         name |-> name,
         address |-> IF address # <<>> THEN address ELSE name,
         latitude |-> feature.geometry[1].coordinates[2],
         longitude |-> feature.geometry[1].coordinates[1],
         type |-> TagOr(properties.type, TagOr(properties.osm_type, "general")),
         search_count |-> 0,
         distance_km |-> Undefined, text_score |-> None]

\* searchPhoton(query): the Location list, [] on any failure.  A feature
\* without geometry makes the map throw inside the try, so [] as well.
searchPhoton(out) ==
    IF out.kind # "ok" THEN Some(<<>>)
    ELSE IF \E i \in DOMAIN out.features : out.features[i].geometry = None
    THEN Some(<<>>)
    ELSE Some([i \in DOMAIN out.features |-> PhotonLocation(out.features[i], i)])

\* searchNominatim(query)
searchNominatim(out) ==
    IF out.kind # "ok" THEN Some(<<>>)
    ELSE Some([i \in DOMAIN out.data |->
                 [id |-> <<"nominatim_", out.data[i].place_id>>,
                  name |-> getShortName(out.data[i]),
                  address |-> out.data[i].display_name,
                  latitude |-> parseFloat(out.data[i].lat),
                  longitude |-> parseFloat(out.data[i].lon),
                  type |-> TagOr(out.data[i].type, "general"),
                  search_count |-> 0,
                  distance_km |-> Undefined, text_score |-> None]])

\* `${item.latitude.toFixed(4)},${item.longitude.toFixed(4)}`
CoordKey(item) ==
    NumToFixed(item.latitude, 4) \o <<",">> \o NumToFixed(item.longitude, 4)

\* item.latitude.toFixed / item.name.toLowerCase throw a TypeError.
KeyThrows(item) == item.latitude = Undefined \/ item.longitude = Undefined

\* The seen set after local.forEach: names and coordinate keys in one Set.
SeenOfLocal(local) ==
    { toLowerCase(local[i].name) : i \in DOMAIN local }
        \cup { CoordKey(local[i]) : i \in DOMAIN local }

\* addUnique(results): st is [merged, seen]; results are taken in order.
RECURSIVE addUnique(_, _)
addUnique(st, results) ==
    IF results = <<>> THEN st
    ELSE LET item == results[1]
             keyName == toLowerCase(item.name)
             keyCoord == CoordKey(item)
         IN  IF keyName \notin st.seen /\ keyCoord \notin st.seen
             THEN addUnique([merged |-> Append(st.merged, item),
                             seen |-> st.seen \cup {keyName, keyCoord}],
                            Tail(results))
             ELSE addUnique(st, Tail(results))

\* Faulty variant of mergeResults: the providers are merged in the other
\* order.
mergeResultsNominatimFirst(local, photon, nominatim) ==
    addUnique(addUnique([merged |-> local, seen |-> SeenOfLocal(local)], nominatim),
              photon).merged

\* mergeResults(local, photon, nominatim), for lists none of whose entries
\* throws (see MergeThrows).
mergeResults(local, photon, nominatim) ==
    addUnique(addUnique([merged |-> local, seen |-> SeenOfLocal(local)], photon),
              nominatim).merged

\* mergeResults throws: some entry has no latitude or longitude.
MergeThrows(local, photon, nominatim) ==
    \E list \in {local, photon, nominatim} : \E i \in DOMAIN list : KeyThrows(list[i])

\* Math.sqrt on naturals, rounded down.
RECURSIVE Isqrt(_)
Isqrt(n) ==
    IF n < 2 THEN n
    ELSE LET small == 2 * Isqrt(n \div 4)
         IN  IF (small + 1) * (small + 1) > n THEN small ELSE small + 1

\* haversineDistance(lat1, lon1, lat2, lon2) in units of 10 m, by the plane
\* approximation of the great circle at the latitude of Metro Manila
\* (1e-7 degree is 1.11 cm of latitude and 1.08 cm of longitude).
haversineDistance(lat1, lon1, lat2, lon2) ==
    LET dLat == ((Abs(lat2 - lat1) \div 100) * 111) \div 1000
        dLon == ((Abs(lon2 - lon1) \div 100) * 108) \div 1000
    IN  Isqrt(dLat * dLat + dLon * dLon)

\* LocationRepository.search(query, limit): SELECT * ... LIMIT limit gave
\* the first n rows of the pool.
search(n) == SubSeq(LocalPool, 1, n)

\* LocationRepository.searchWithProximity: each row also carries
\* distance_km and text_score.
searchWithProximity(n, userLat, userLon) ==
    [i \in 1..n |->
        [LocalPool[i] EXCEPT
            !.distance_km = Some(haversineDistance(userLat, userLon,
                                                   LocalPool[i].latitude[1],
                                                   LocalPool[i].longitude[1])),
            !.text_score = Some(PoolSimilarity[i])]]

\* The Local Store throws or gives n rows.
LocalOutcomes ==
    [kind : {"error"}, n : {0}] \cup [kind : {"ok"}, n : 0..Len(LocalPool)]

\* String.prototype.startsWith / includes
startsWith(str, prefix) ==
    Len(prefix) <= Len(str) /\ SubSeq(str, 1, Len(prefix)) = prefix

includes(str, part) ==
    \E i \in 1..(Len(str) - Len(part) + 1) : SubSeq(str, i, i + Len(part) - 1) = part

IsSpace(c) == c \in {" ", "\t", "\n"}

\* The non-empty words of str.split(/\s+/).
Words(str) ==
    { SubSeq(str, i, j) : i \in 1..Len(str), j \in 1..Len(str) } \cap
    { SubSeq(str, ij[1], ij[2]) :
        ij \in { w \in (1..Len(str)) \X (1..Len(str)) :
                   /\ w[1] <= w[2]
                   /\ \A k \in w[1]..w[2] : ~IsSpace(str[k])
                   /\ (w[1] = 1 \/ IsSpace(str[w[1] - 1]))
                   /\ (w[2] = Len(str) \/ IsSpace(str[w[2] + 1])) } }

\* Faulty variant of calculateTextScore: name and query are compared as
\* written.
calculateTextScoreCaseSensitive(result, query) ==
    LET name == result.name
        queryLower == query
    IN  IF name = queryLower THEN 1000
        ELSE IF startsWith(name, queryLower) THEN 800
        ELSE IF includes(name, queryLower) THEN 600
        ELSE IF \E word \in Words(name) : startsWith(word, queryLower) THEN 500
        ELSE 300

\* Scores are kept in thousandths: 1.0 is 1000.
\* calculateTextScore(result, query).  No result carries text_similarity:
\* the store names its column text_score.
calculateTextScore(result, query) ==
    LET name == toLowerCase(result.name)
        queryLower == toLowerCase(query)
    IN  IF name = queryLower THEN 1000
        ELSE IF startsWith(name, queryLower) THEN 800
        ELSE IF includes(name, queryLower) THEN 600
        ELSE IF \E word \in Words(name) : startsWith(word, queryLower) THEN 500
        ELSE 300

\* calculateProximityScore(distanceKm), the distance in units of 10 m.  A
\* NaN distance passes both tests and gives NaN.
calculateProximityScore(distanceKm) ==
    IF distanceKm = Undefined THEN Some(500)
    ELSE IF distanceKm = NaN THEN NaN
    ELSE IF distanceKm[1] >= 2000 THEN Some(0)
    ELSE Some(1000 - distanceKm[1] \div 2)

\* 1000 * Math.log10(n), exact at the powers of ten and interpolated
\* linearly between them.
RECURSIVE Log10Milli(_)
Log10Milli(n) ==
    IF n < 10 THEN ((n - 1) * 1000) \div 9
    ELSE IF n % 10 = 0 THEN 1000 + Log10Milli(n \div 10)
    ELSE LET lower == Log10Milli(n \div 10)
         IN  1000 + lower + (((n % 10) * (Log10Milli(n \div 10 + 1) - lower)) \div 10)

\* calculatePopularityScore(searchCount)
calculatePopularityScore(searchCount) ==
    IF searchCount <= 0 THEN 0
    ELSE Min2(Log10Milli(searchCount + 1) \div 3, 1000)

\* Faulty variant of calculateUserScore: the frequent places are looked at
\* first.
calculateUserScoreFrequentFirst(result, userFrequentPlaces, userSavedPlaces) ==
    Min2(IF result.id \in userFrequentPlaces THEN 600
         ELSE IF result.id \in userSavedPlaces THEN 1000
         ELSE 0,
         1000)

\* calculateUserScore(result, userFrequentPlaces, userSavedPlaces)
calculateUserScore(result, userFrequentPlaces, userSavedPlaces) ==
    Min2(IF result.id \in userSavedPlaces THEN 1000
         ELSE IF result.id \in userFrequentPlaces THEN 600
         ELSE 0,
         1000)

\* What the query on user_saved_places can give.
PrefsOutcomes ==
    { [kind |-> "error", rows |-> <<>>],
      [kind |-> "ok", rows |-> << [id |-> <<"saved_", 1>>, use_count |-> 1] >>],
      [kind |-> "ok", rows |-> << [id |-> <<"loc_", 3>>, use_count |-> 5] >>] }

\* Line 191: the query is made only for a logged-in user.
PrefsFor(userId) ==
    IF userId # None THEN PrefsOutcomes ELSE {[kind |-> "ok", rows |-> <<>>]}

NoPreferences == [frequentPlaces |-> {}, savedPlaces |-> {}]

\* Faulty variant of getUserPlacePreferences: a place used more than 3
\* times is listed as frequent and not as saved.
getUserPlacePreferencesSplit(out) ==
    IF out.kind = "error" THEN NoPreferences
    ELSE [savedPlaces |-> { out.rows[i].id :
                              i \in { k \in DOMAIN out.rows : out.rows[k].use_count <= 3 } },
          frequentPlaces |-> { out.rows[i].id :
                                 i \in { k \in DOMAIN out.rows : out.rows[k].use_count > 3 } }]

\* getUserPlacePreferences(userId)
getUserPlacePreferences(out) ==
    IF out.kind = "error" THEN NoPreferences
    ELSE [savedPlaces |-> { out.rows[i].id : i \in DOMAIN out.rows },
          frequentPlaces |-> { out.rows[i].id :
                                 i \in { k \in DOMAIN out.rows : out.rows[k].use_count > 3 } }]

\* The weights of lines 214-219, in hundredths.
WEIGHTS == [text |-> 35, proximity |-> 30, popularity |-> 20, user |-> 15]

\* The weighted composite, in units of 1e-5; NaN when the proximity score
\* is.
FinalScore(textScore, proximityScore, popularityScore, userScore) ==
    IF proximityScore = NaN THEN NaN
    ELSE Some(textScore * WEIGHTS.text + proximityScore[1] * WEIGHTS.proximity
              + popularityScore * WEIGHTS.popularity + userScore * WEIGHTS.user)

\* The map of rankSearchResults: one result with its score breakdown.
Scored(result, query, userPrefs) ==
    LET textScore == calculateTextScore(result, query)
        proximityScore == calculateProximityScore(result.distance_km)
        popularityScore == calculatePopularityScore(result.search_count)
        userScore == calculateUserScore(result, userPrefs.frequentPlaces,
                                        userPrefs.savedPlaces)
    IN  [id |-> result.id, name |-> result.name, address |-> result.address,
         latitude |-> result.latitude, longitude |-> result.longitude,
         type |-> result.type, search_count |-> result.search_count,
         distance_km |-> result.distance_km,
         text_score |-> textScore,
         proximity_score |-> proximityScore,
         popularity_score |-> popularityScore,
         user_score |-> userScore,
         final_score |-> FinalScore(textScore, proximityScore, popularityScore, userScore)]

\* The comparator (a, b) => b.final_score - a.final_score as sort sees it:
\* its sign, and 0 when the difference is NaN.
Compare(a, b) ==
    IF a.final_score = NaN \/ b.final_score = NaN THEN 0
    ELSE IF b.final_score[1] < a.final_score[1] THEN -1
    ELSE IF b.final_score[1] > a.final_score[1] THEN 1
    ELSE 0

\* The length of the run that starts the array: strictly descending when
\* the second entry sorts before the first, else non-descending.
RECURSIVE RunLength(_, _, _)
RunLength(arr, isDescending, idx) ==
    IF idx > Len(arr) THEN idx - 1
    ELSE LET order == Compare(arr[idx], arr[idx - 1])
         IN  IF (isDescending /\ order >= 0) \/ (~isDescending /\ order < 0)
             THEN idx - 1
             ELSE RunLength(arr, isDescending, idx + 1)

Reverse(arr) == [i \in DOMAIN arr |-> arr[Len(arr) + 1 - i]]

\* The binary search of the insertion: where pivot goes in arr[left..right-1]
\* (1-based, right exclusive).
RECURSIVE InsertionPoint(_, _, _, _)
InsertionPoint(arr, pivot, left, right) ==
    IF left >= right THEN left
    ELSE LET mid == left + (right - left) \div 2
         IN  IF Compare(pivot, arr[mid]) < 0
             THEN InsertionPoint(arr, pivot, left, mid)
             ELSE InsertionPoint(arr, pivot, mid + 1, right)

\* arr[1..start-1] is sorted; the entries from start on are inserted one by
\* one, each behind its equals.
RECURSIVE BinaryInsertionSort(_, _)
BinaryInsertionSort(arr, start) ==
    IF start > Len(arr) THEN arr
    ELSE LET pivot == arr[start]
             left == InsertionPoint(arr, pivot, 1, start)
         IN  BinaryInsertionSort(SubSeq(arr, 1, left - 1) \o <<pivot>>
                                   \o SubSeq(arr, left, start - 1)
                                   \o SubSeq(arr, start + 1, Len(arr)),
                                 start + 1)

\* ranked.sort((a, b) => b.final_score - a.final_score) as the engine of
\* Node runs it on fewer than 64 entries: the leading run is found (and
\* reversed when descending), the rest is inserted by binary search.  With
\* numbers for scores this is the stable sort by descending score.
SortByScore(ranked) ==
    IF Len(ranked) < 2 THEN ranked
    ELSE LET isDescending == Compare(ranked[2], ranked[1]) < 0
             runLength == RunLength(ranked, isDescending, 3)
             prepared == IF isDescending
                         THEN Reverse(SubSeq(ranked, 1, runLength))
                                \o SubSeq(ranked, runLength + 1, Len(ranked))
                         ELSE ranked
         IN  BinaryInsertionSort(prepared, runLength + 1)

\* rankSearchResults(results, context)
rankSearchResults(results, query, userPrefs) ==
    SortByScore([i \in DOMAIN results |-> Scored(results[i], query, userPrefs)])

\* Lines 138-152: results without a distance get one.  !distance_km is true
\* of undefined, 0 and NaN; the distance to a NaN coordinate is NaN.
WithDistance(results, userLat, userLon) ==
    [i \in DOMAIN results |->
        IF results[i].distance_km \in {Undefined, Some(0), NaN}
        THEN [results[i] EXCEPT
                !.distance_km =
                    IF results[i].latitude = NaN \/ results[i].longitude = NaN
                    THEN NaN
                    ELSE Some(haversineDistance(userLat, userLon,
                                                results[i].latitude[1],
                                                results[i].longitude[1]))]
        ELSE results[i]]

\* rankedResults.slice(0, limit)
Slice(list, limit) == SubSeq(list, 1, Min2(limit, Len(list)))

\* The inputs of a search request: q, lat and lon of the query string, and
\* what the Authorization header holds.
SearchQueries == { None, Some(<<" ", "s">>), Some(<<"S", "M", " ">>) }

UserCoordinates ==
    { <<None, None>>,
      <<Some(<<"1", "4", ".", "6", "2">>), Some(<<"1", "2", "1", ".", "0", "5">>)>>,
      <<Some(<<"x">>), None>> }

AuthHeaders == { "none", "basic", "bearer_valid", "bearer_null", "bearer_throws" }

IdleSearch ==
    [pc |-> "idle", query |-> <<>>, hasUserLocation |-> FALSE,
     userLat |-> None, userLon |-> None, userId |-> None,
     localResults |-> <<>>, photonResults |-> None, nominatimResults |-> None,
     allResults |-> <<>>, rankedResults |-> <<>>, prefs |-> None, calls |-> {},
     stalled |-> {}, response |-> None]

InitSearch == sreq = IdleSearch

\* Faulty variant of SearchErrorResponse: the failure is answered as an
\* empty success.
SearchErrorResponseEmpty(req) ==
    [req EXCEPT !.pc = "done", !.response = Some([status |-> 200, body |-> <<>>])]

\* Lines 167-170: the catch of the handler.
SearchErrorResponse(req) ==
    [req EXCEPT !.pc = "done",
                !.response = Some([status |-> 500,
                                   body |-> [error |-> "Internal server error"]])]

\* Faulty variant of NeedsProviders: five local rows still call out.
NeedsProvidersUpTo(localResults) == Len(localResults) <= LocalCoverage

\* Line 127: if (localResults.length < 5)
NeedsProviders(localResults) == Len(localResults) < LocalCoverage

\* Lines 73-100: q is validated, the user location parsed and the token read.
ReceiveSearch(q, coordinate, auth) ==
    /\ sreq.pc = "idle"
    /\ IF ~Truthy(q) \/ Len(Trim(q[1])) < 2
       THEN sreq' = [sreq EXCEPT
                       !.pc = "done",
                       !.response = Some([status |-> 400,
                                          body |-> [error |-> "Query parameter q is required"]])]
       ELSE LET userLat == IF Truthy(coordinate[1]) THEN parseFloat(coordinate[1][1]) ELSE None
                userLon == IF Truthy(coordinate[2]) THEN parseFloat(coordinate[2][1]) ELSE None
            IN  sreq' = [sreq EXCEPT
                           !.pc = "local",
                           !.query = Trim(q[1]),
                           !.userLat = userLat,
                           !.userLon = userLon,
                           !.hasUserLocation = (userLat # NaN /\ userLon # NaN),
                           !.userId = IF auth = "bearer_valid" THEN Some("u1") ELSE None]
    /\ UNCHANGED <<pickupVars, reverseVars, validateVars>>

\* Lines 108-132: the Local Store is searched; fewer than five rows send
\* the request to both providers.
LocalSearch(out) ==
    /\ sreq.pc = "local"
    /\ IF out.kind = "error"
       THEN sreq' = SearchErrorResponse([sreq EXCEPT !.calls = @ \cup {<<"local", "error">>}])
       ELSE LET localResults == IF sreq.hasUserLocation
                                THEN searchWithProximity(out.n, sreq.userLat[1], sreq.userLon[1])
                                ELSE search(out.n)
            IN  sreq' = [sreq EXCEPT
                           !.calls = @ \cup {<<"local", "rows">>},
                           !.localResults = localResults,
                           !.pc = IF NeedsProviders(localResults)
                                  THEN "providers" ELSE "respond",
                           !.photonResults = IF NeedsProviders(localResults)
                                             THEN None ELSE Some(<<>>),
                           !.nominatimResults = IF NeedsProviders(localResults)
                                                THEN None ELSE Some(<<>>)]
    /\ UNCHANGED <<pickupVars, reverseVars, validateVars>>

\* Lines 209 and 257: fetch is called without a signal or any timer, so a
\* provider that never answers leaves its promise pending for good.
ProviderStalls(provider) ==
    /\ sreq.pc = "providers"
    /\ provider \notin sreq.stalled
    /\ IF provider = "photon" THEN sreq.photonResults = None
                              ELSE sreq.nominatimResults = None
    /\ sreq' = [sreq EXCEPT !.stalled = @ \cup {provider}]
    /\ UNCHANGED <<pickupVars, reverseVars, validateVars>>

\* Line 129: searchPhoton(query) settles.
PhotonSearch(out) ==
    /\ sreq.pc = "providers"
    /\ "photon" \notin sreq.stalled
    /\ sreq.photonResults = None
    /\ sreq' = [sreq EXCEPT
                  !.calls = @ \cup {<<"photon", out.kind>>},
                  !.photonResults = searchPhoton(out),
                  !.pc = IF sreq.nominatimResults # None THEN "respond" ELSE @]
    /\ UNCHANGED <<pickupVars, reverseVars, validateVars>>

\* Line 130: searchNominatim(query) settles.
NominatimSearch(out) ==
    /\ sreq.pc = "providers"
    /\ "nominatim" \notin sreq.stalled
    /\ sreq.nominatimResults = None
    /\ sreq' = [sreq EXCEPT
                  !.calls = @ \cup {<<"nominatim", out.kind>>},
                  !.nominatimResults = searchNominatim(out),
                  !.pc = IF sreq.photonResults # None THEN "respond" ELSE @]
    /\ UNCHANGED <<pickupVars, reverseVars, validateVars>>

\* Lines 135-170: merge, distances, ranking and the answer.  prefs is what
\* the query of getUserPlacePreferences gave, kept for a logged-in user.
Respond(prefs) ==
    /\ sreq.pc = "respond"
    /\ IF MergeThrows(sreq.localResults, sreq.photonResults[1], sreq.nominatimResults[1])
       THEN sreq' = SearchErrorResponse(sreq)
       ELSE LET merged == mergeResults(sreq.localResults, sreq.photonResults[1],
                                       sreq.nominatimResults[1])
                allResults == IF sreq.hasUserLocation
                              THEN WithDistance(merged, sreq.userLat[1], sreq.userLon[1])
                              ELSE merged
                userPrefs == IF sreq.userId # None
                             THEN getUserPlacePreferences(prefs) ELSE NoPreferences
                rankedResults == rankSearchResults(allResults, sreq.query, userPrefs)
            IN  sreq' = [sreq EXCEPT
                           !.pc = "done",
                           !.allResults = allResults,
                           !.rankedResults = rankedResults,
                           !.prefs = IF sreq.userId # None THEN Some(prefs) ELSE None,
                           !.response = Some([status |-> 200,
                                              body |-> Slice(rankedResults, SearchLimit)])]
    /\ UNCHANGED <<pickupVars, reverseVars, validateVars>>

NextSearch ==
    \/ \E q \in SearchQueries, coordinate \in UserCoordinates, auth \in AuthHeaders :
          ReceiveSearch(q, coordinate, auth)
    \/ \E out \in LocalOutcomes : LocalSearch(out)
    \/ \E out \in SearchPhotonOutcomes : PhotonSearch(out)
    \/ \E out \in SearchNominatimOutcomes : NominatimSearch(out)
    \/ \E provider \in {"photon", "nominatim"} : ProviderStalls(provider)
    \/ \E prefs \in PrefsFor(sreq.userId) : Respond(prefs)

(***************************************************************************)
(* Coordinate validator: services/coordinateValidator.ts                   *)
(***************************************************************************)
\* Bound: the number of elements one Overpass answer may hold.
MaxElements == 2

\* haversineDistance(lat1, lon1, lat2, lon2) of the validator, in metres,
\* by the same plane approximation.
haversineMeters(lat1, lon1, lat2, lon2) ==
    LET dLat == (Abs(lat2 - lat1) * 111) \div 10000
        dLon == (Abs(lon2 - lon1) * 108) \div 10000
    IN  Isqrt(dLat * dLat + dLon * dLon)

\* VALIDATION_RULES[normalizedType].maxSnapDistance, None for a type the
\* table does not hold.
VALIDATION_RULES(normalizedType) ==
    CASE normalizedType = <<"s", "c", "h", "o", "o", "l">> -> Some(100)
      [] normalizedType = <<"u", "n", "i", "v", "e", "r", "s", "i", "t", "y">> -> Some(100)
      [] normalizedType = <<"c", "o", "l", "l", "e", "g", "e">> -> Some(100)
      [] normalizedType = <<"m", "a", "l", "l">> -> Some(150)
      [] normalizedType = <<"s", "h", "o", "p", "p", "i", "n", "g", "_",
                            "c", "e", "n", "t", "r", "e">> -> Some(150)
      [] normalizedType = <<"s", "u", "p", "e", "r", "m", "a", "r", "k", "e", "t">> -> Some(100)
      [] normalizedType = <<"a", "i", "r", "p", "o", "r", "t">> -> Some(200)
      [] normalizedType = <<"a", "e", "r", "o", "d", "r", "o", "m", "e">> -> Some(200)
      [] normalizedType = <<"s", "t", "a", "t", "i", "o", "n">> -> Some(50)
      [] normalizedType = <<"r", "a", "i", "l", "w", "a", "y", "_",
                            "s", "t", "a", "t", "i", "o", "n">> -> Some(50)
      [] normalizedType = <<"s", "u", "b", "w", "a", "y", "_",
                            "e", "n", "t", "r", "a", "n", "c", "e">> -> Some(50)
      [] normalizedType = <<"h", "o", "s", "p", "i", "t", "a", "l">> -> Some(100)
      [] normalizedType = <<"g", "e", "n", "e", "r", "a", "l">> -> Some(50)
      [] OTHER -> None

\* The poiType argument: absent, a string, or a value that is no string.
PoiTypes ==
    { [kind |-> "undefined", value |-> <<>>],
      [kind |-> "number", value |-> <<>>],
      [kind |-> "string", value |-> <<>>],
      [kind |-> "string", value |-> <<"M", "a", "l", "l">>],
      [kind |-> "string", value |-> <<"a", "i", "r", "p", "o", "r", "t">>],
      [kind |-> "string", value |-> <<"c", "a", "f", "e">>] }

\* poiType?.toLowerCase() throws on a value that has no such method.
RulesThrow(poiType) == poiType.kind = "number"

\* getValidationRules(poiType).maxSnapDistance
getValidationRules(poiType) ==
    LET normalizedType ==
            IF poiType.kind = "string" /\ poiType.value # <<>>
            THEN toLowerCase(poiType.value)
            ELSE <<"g", "e", "n", "e", "r", "a", "l">>
        rule == VALIDATION_RULES(normalizedType)
    IN  IF rule # None THEN rule[1]
        ELSE VALIDATION_RULES(<<"g", "e", "n", "e", "r", "a", "l">>)[1]

\* The coordinates handed to the validator.
ValidatorInputs ==
    { <<146186000, 1210567000>>, <<145995000, 1209842000>>, <<-213, 1800000000>> }

\* Roads of the map data as Overpass gives them with "out geom", their
\* nodes as offsets <<lat, lon>> in 1e-7 degrees from the validated
\* coordinate: a road from 10 m to 180 m north of it, a road whose only node
\* is 300 m south, a straight road that passes 30 m east with its two nodes
\* 150 m to the north and to the south, and a road 120 m north.  The last
\* two are elements no road query asks for: a way without geometry and a
\* node.
OverpassElements ==
    { [type |-> "way", geometry |-> Some(<< <<16200, 0>>, <<900, 0>> >>)],
      [type |-> "way", geometry |-> Some(<< <<-27000, 0>> >>)],
      [type |-> "way", geometry |-> Some(<< <<13500, 2800>>, <<-13500, 2800>> >>)],
      [type |-> "way", geometry |-> Some(<< <<10800, 0>>, <<10800, 9000>> >>)],
      [type |-> "way", geometry |-> None],
      [type |-> "node", geometry |-> None] }

\* What fetch + response.json() of an Overpass call can do.  elements is
\* None when the body holds no elements field, else the roads of the map
\* data, of which the query keeps those around the coordinate.
OverpassOutcomes ==
    [kind : FailureKinds, elements : {None}]
    \cup [kind : {"ok"},
          elements : {None} \cup { Some(l) : l \in SeqsUpTo(OverpassElements, MaxElements) }]

\* A node offset in metres east and north of the coordinate.
MetresOf(offset) ==
    [x |-> (offset[2] * 108) \div 10000, y |-> (offset[1] * 111) \div 10000]

\* The distance in metres from the coordinate to the segment between two
\* nodes.
SegmentDistance(offsetA, offsetB) ==
    LET a == MetresOf(offsetA)
        b == MetresOf(offsetB)
        dx == b.x - a.x
        dy == b.y - a.y
        along == -(a.x * dx + a.y * dy)
        lengthSq == dx * dx + dy * dy
    IN  IF lengthSq = 0 \/ along <= 0 THEN Isqrt(a.x * a.x + a.y * a.y)
        ELSE IF along >= lengthSq THEN Isqrt(b.x * b.x + b.y * b.y)
        ELSE Abs(a.x * b.y - a.y * b.x) \div Isqrt(lengthSq)

\* The distance in metres from the coordinate to a way: to the nearest of
\* its segments, or to its node when it has one node.
WayDistance(geometry) ==
    IF Len(geometry) = 1 THEN SegmentDistance(geometry[1], geometry[1])
    ELSE LET distances == { SegmentDistance(geometry[i], geometry[i + 1]) :
                              i \in 1..(Len(geometry) - 1) }
         IN  CHOOSE d \in distances : \A e \in distances : d <= e

\* way["highway"](around:radius,lat,lon): of the roads of the map data,
\* those with a part within radius metres of the coordinate.  An element
\* without geometry cannot be placed and stays in the answer.
around(elements, radius) ==
    SelectSeq(elements,
              LAMBDA element : element.geometry = None
                                 \/ WayDistance(element.geometry[1]) <= radius)

\* Faulty variant of isOnRoad: a failed call says the coordinate is off
\* the road.
isOnRoadFailClosed(radiusMeters, out) ==
    IF out.kind # "ok" THEN FALSE
    ELSE out.elements # None /\ Len(around(out.elements[1], radiusMeters)) > 0

\* isOnRoad(lat, lon, radiusMeters): true on any failure.
isOnRoad(radiusMeters, out) ==
    IF out.kind # "ok" THEN TRUE
    ELSE out.elements # None /\ Len(around(out.elements[1], radiusMeters)) > 0

\* Lines 156-167: the closest node so far, after the nodes of geometry.
RECURSIVE ClosestOfNodes(_, _, _, _)
ClosestOfNodes(closestPoint, lat, lon, geometry) ==
    IF geometry = <<>> THEN closestPoint
    ELSE LET node == [lat |-> lat + Head(geometry)[1], lon |-> lon + Head(geometry)[2]]
             distance == haversineMeters(lat, lon, node.lat, node.lon)
             next == IF closestPoint = None \/ distance < closestPoint[1].distance
                     THEN Some([lat |-> node.lat, lon |-> node.lon, distance |-> distance])
                     ELSE closestPoint
         IN  ClosestOfNodes(next, lat, lon, Tail(geometry))

RECURSIVE ClosestOfElements(_, _, _, _)
ClosestOfElements(closestPoint, lat, lon, elements) ==
    IF elements = <<>> THEN closestPoint
    ELSE LET element == Head(elements)
             next == IF element.type = "way" /\ element.geometry # None
                     THEN ClosestOfNodes(closestPoint, lat, lon, element.geometry[1])
                     ELSE closestPoint
         IN  ClosestOfElements(next, lat, lon, Tail(elements))

\* findNearestRoad(lat, lon, maxDistanceMeters): null on any failure and on
\* an answer without elements.
findNearestRoad(lat, lon, maxDistanceMeters, out) ==
    IF out.kind # "ok" THEN None
    ELSE IF out.elements = None \/ around(out.elements[1], maxDistanceMeters) = <<>>
    THEN None
    ELSE ClosestOfElements(None, lat, lon, around(out.elements[1], maxDistanceMeters))

\* The ValidationResult that keeps the coordinate.
OriginalResult(lat, lon) ==
    [latitude |-> lat, longitude |-> lon, adjusted |-> FALSE,
     distance_meters |-> None, source |-> "original"]

\* Faulty variant of SnappedResult: the snap distance is left out.
SnappedResultNoDistance(nearestRoad) ==
    [latitude |-> nearestRoad.lat, longitude |-> nearestRoad.lon, adjusted |-> TRUE,
     distance_meters |-> None, source |-> "road_snapped"]

\* Lines 213-219: the result snapped to nearestRoad.
SnappedResult(nearestRoad) ==
    [latitude |-> nearestRoad.lat, longitude |-> nearestRoad.lon, adjusted |-> TRUE,
     distance_meters |-> Some(nearestRoad.distance), source |-> "road_snapped"]

IdleValidation ==
    [pc |-> "idle", latitude |-> 0, longitude |-> 0, maxSnapDistance |-> 0,
     onRoad |-> None, nearestRoad |-> None, calls |-> <<>>, result |-> None]

InitValidate == vreq = IdleValidation

\* validateAndAdjustCoordinates is entered; snapToNearestRoad reads the
\* rules.  The catch of lines 240-249 answers when that throws.
ValidateStart(coordinate, poiType) ==
    /\ vreq.pc = "idle"
    /\ LET req == [vreq EXCEPT !.latitude = coordinate[1], !.longitude = coordinate[2]]
       IN  IF RulesThrow(poiType)
           THEN vreq' = [req EXCEPT
                           !.pc = "done",
                           !.calls = Append(@, <<"getValidationRules", "throws">>),
                           !.result = Some(OriginalResult(coordinate[1], coordinate[2]))]
           ELSE vreq' = [req EXCEPT
                           !.pc = "isOnRoad",
                           !.maxSnapDistance = getValidationRules(poiType)]
    /\ UNCHANGED <<pickupVars, reverseVars, searchVars>>

\* Lines 188-197: isOnRoad answers.
IsOnRoadReturns(out) ==
    /\ vreq.pc = "isOnRoad"
    /\ LET req == [vreq EXCEPT !.calls = Append(@, <<"isOnRoad", out.kind>>),
                                !.onRoad = Some(isOnRoad(20, out))]
       IN  IF isOnRoad(20, out)
           THEN vreq' = [req EXCEPT
                           !.pc = "done",
                           !.result = Some(OriginalResult(vreq.latitude, vreq.longitude))]
           ELSE vreq' = [req EXCEPT !.pc = "findNearestRoad"]
    /\ UNCHANGED <<pickupVars, reverseVars, searchVars>>

\* Lines 200-219: findNearestRoad answers.
FindNearestRoadReturns(out) ==
    /\ vreq.pc = "findNearestRoad"
    /\ LET req == [vreq EXCEPT !.calls = Append(@, <<"findNearestRoad", out.kind>>)]
           nearestRoad == findNearestRoad(vreq.latitude, vreq.longitude,
                                          vreq.maxSnapDistance, out)
       IN  IF nearestRoad = None
           THEN vreq' = [req EXCEPT
                           !.pc = "done",
                           !.result = Some(OriginalResult(vreq.latitude, vreq.longitude))]
           ELSE vreq' = [req EXCEPT
                           !.pc = "done",
                           !.nearestRoad = nearestRoad,
                           !.result = Some(SnappedResult(nearestRoad[1]))]
    /\ UNCHANGED <<pickupVars, reverseVars, searchVars>>

NextValidate ==
    \/ \E coordinate \in ValidatorInputs, poiType \in PoiTypes :
          ValidateStart(coordinate, poiType)
    \/ \E out \in OverpassOutcomes : IsOnRoadReturns(out)
    \/ \E out \in OverpassOutcomes : FindNearestRoadReturns(out)

Init == InitPickup /\ InitReverse /\ InitSearch /\ InitValidate
Next == NextPickup \/ NextReverse \/ NextSearch \/ NextValidate

SpecPickup == Init /\ [][NextPickup]_vars
SpecReverse == Init /\ [][NextReverse]_vars
\* Every step of a reverse-geocode request that can be taken is eventually
\* taken: the Local Store answers each query, and a provider call ends with
\* an answer, a failure or its timeout unless it waits for a body.
SpecReverseLive ==
    /\ Init
    /\ [][NextReverse]_vars
    /\ \A r \in Requests :
          /\ WF_vars(\E dbOk \in BOOLEAN : CacheLookup(r, dbOk))
          /\ WF_vars(\E out \in PhotonOutcomes : PhotonReverse(r, out))
          /\ WF_vars(\E out \in NominatimOutcomes : NominatimReverse(r, out))
          /\ WF_vars(\E dbOk \in BOOLEAN : CacheFindCoords(r, dbOk))
          /\ WF_vars(\E dbOk \in BOOLEAN : CacheFindDetails(r, dbOk))
          /\ WF_vars(\E dbOk \in BOOLEAN : CacheCreate(r, dbOk))
SpecSearch == Init /\ [][NextSearch]_vars
\* Every step the handler or a provider can take is eventually taken: the
\* Local Store answers, a provider that has not stalled answers, and the
\* handler goes on to merge and answer.  Respond is enabled exactly in the
\* states with pc = "respond" and leaves them, so its weak fairness is
\* stated as []<>(pc # "respond").
SpecSearchLive ==
    /\ Init
    /\ [][NextSearch]_vars
    /\ WF_vars(\E out \in LocalOutcomes : LocalSearch(out))
    /\ WF_vars(\E out \in SearchPhotonOutcomes : PhotonSearch(out))
    /\ WF_vars(\E out \in SearchNominatimOutcomes : NominatimSearch(out))
    /\ []<>(sreq.pc # "respond")
SpecValidate == Init /\ [][NextValidate]_vars
Spec == Init /\ [][Next]_vars
(***************************************************************************)
(* Properties of the pickup-point store                                    *)
(***************************************************************************)
\* C4 (as claimed): in every reachable state of the pickup-point store a
\* point has verified = TRUE only if its verification_count is at least 3.
\* Refuted by createSuggestion with data.verified = true.
C4_VerifiedOnlyAtThreshold ==
    \A i \in DOMAIN points :
        points[i].verified => points[i].verification_count >= 3

\* C5 (as claimed): a point becomes verified exactly on the confirmation
\* that brings verification_count to 3, verified_at being set by that
\* confirmation; afterwards verified stays TRUE and verified_at never
\* changes, and every change of verification_count is an increment by 1.
\* Refuted through createSuggestion with data.verified = true (see C4).
C5_VerifiedExactlyOnThirdConfirmation ==
    [][\A i \in DOMAIN points' :
         LET isNew == i \notin DOMAIN points
             after == points'[i]
         IN  /\ (after.verified /\ (isNew \/ ~points[i].verified))
                    => /\ ~isNew
                       /\ points[i].verification_count = 2
                       /\ after.verification_count = 3
                       /\ after.verified_at = Some(now')
             /\ (~isNew /\ points[i].verified)
                    => /\ after.verified
                       /\ after.verified_at = points[i].verified_at
             /\ (~isNew /\ after.verification_count # points[i].verification_count)
                    => after.verification_count = points[i].verification_count + 1
             /\ (after.verified /\ after.verification_count >= 3)
                    => after.verified_at # None]_vars

\* C14 (as claimed): whatever the order of the confirmations of a point,
\* each one that changes verification_count adds exactly 1 to it, the one
\* that takes the count across 3 finds the point unstamped and leaves it
\* verified with verified_at set to its own time, and no other one touches
\* verified or verified_at.  Refuted through createSuggestion with
\* data.verified = true (see C4): the confirmation that crosses 3 finds
\* verified = TRUE and stamps nothing.
C14_ConfirmationsCountedAndStampedOnce ==
    [][\A i \in DOMAIN points :
         LET before == points[i]
             after == points'[i]
         IN  after.verification_count # before.verification_count =>
                /\ after.verification_count = before.verification_count + 1
                /\ IF before.verification_count < 3 /\ after.verification_count >= 3
                   THEN /\ before.verified_at = None
                        /\ after.verified
                        /\ after.verified_at = Some(now')
                   ELSE /\ after.verified = before.verified
                        /\ after.verified_at = before.verified_at]_vars

\* C25: verified_by is stamped only when a point becomes verified.  After
\* any step, a point that is not verified does not carry the stamp
\* verified_by = 'user' (a verifier named by the creator aside, a user
\* suggestion has verified_by unset until the confirmation that verifies
\* it), and a step on a verified point leaves its verified_by as it was.
C25_VerifiedByStampedAtTransition ==
    [][\A i \in DOMAIN points' :
         /\ ~points'[i].verified => points'[i].verified_by # "user"
         /\ (i \in DOMAIN points /\ points[i].verified)
               => points'[i].verified_by = points[i].verified_by]_vars

\* The verification columns of a pickup point.
C26_Verification(p) ==
    <<p.verified, p.verified_at, p.verified_by, p.verification_count>>

\* C26: selection and verification are independent.  A recordUse that
\* succeeds adds 1 to use_count and sets last_used_at to the time of the
\* step, whether the point is verified or not; a step that changes the
\* selection columns of a point changes them in just that way and leaves
\* its verification columns alone; a step that changes the verification
\* columns leaves use_count and last_used_at alone; and a step changes at
\* most one point.
C26_SelectionIndependentOfVerification ==
    [][\A i \in DOMAIN points :
         LET before == points[i]
             after == points'[i]
         IN  /\ recordUse(i, TRUE) =>
                   /\ after.use_count = before.use_count + 1
                   /\ after.last_used_at = Some(now')
             /\ (after.use_count # before.use_count
                    \/ after.last_used_at # before.last_used_at) =>
                   /\ after.use_count = before.use_count + 1
                   /\ after.last_used_at = Some(now')
                   /\ C26_Verification(after) = C26_Verification(before)
             /\ C26_Verification(after) # C26_Verification(before) =>
                   /\ after.use_count = before.use_count
                   /\ after.last_used_at = before.last_used_at
             /\ after # before =>
                   \A j \in DOMAIN points : j # i => points'[j] = points[j]]_vars

\* C26 witness: an unverified point has been confirmed and selected, a
\* verified point has been selected, each keeping the other's columns.
C26_Witness ==
    \E i, j \in DOMAIN points :
        /\ ~points[i].verified
        /\ points[i].verification_count = 1
        /\ points[i].use_count = 1
        /\ points[j].verified
        /\ points[j].use_count = 1
        /\ points[j].verification_count = 0

\* C27: only independent confirmations count.  The users who can confirm
\* are UserIds, so a verification_count raised by at most one confirmation
\* of each user never passes their number.
C27_IndependentConfirmationsOnly ==
    \A i \in DOMAIN points : points[i].verification_count <= Cardinality(UserIds)

(***************************************************************************)
(* Properties of reverse geocoding                                         *)
(***************************************************************************)
ReverseSources == {"cache", "photon", "nominatim", "fallback", "error_fallback"}

\* The request's coordinates are numeric and in range.
NumericInRange(req) ==
    /\ req.latitude # NaN /\ req.longitude # NaN
    /\ req.latitude[1] >= -900000000 /\ req.latitude[1] <= 900000000
    /\ req.longitude[1] >= -1800000000 /\ req.longitude[1] <= 1800000000

SourceOf(req) == req.response[1].body.source
StagesOf(req) == [i \in DOMAIN req.calls |-> req.calls[i][1]]

\* C1: every answered request with numeric, in-range coordinates was
\* answered with status 200 and a Place whose source is one of cache,
\* photon, nominatim, fallback, error_fallback, whatever the cache and the
\* providers did.
C1_ReverseNeverFails ==
    \A r \in Requests :
        (rreq[r].pc = "done" /\ NumericInRange(rreq[r]))
            => /\ rreq[r].response[1].status = 200
               /\ SourceOf(rreq[r]) \in ReverseSources
               /\ rreq[r].response[1].body.name # <<>>

\* C1 witness: one request answered from the outer catch (the cache lookup
\* threw) and another answered by provider B after provider A gave nothing.
C1_Witness ==
    \E r1, r2 \in Requests :
        /\ rreq[r1].pc = "done" /\ NumericInRange(rreq[r1])
        /\ rreq[r1].calls = << <<"cache_lookup", "error">> >>
        /\ SourceOf(rreq[r1]) = "error_fallback"
        /\ rreq[r2].pc = "done" /\ NumericInRange(rreq[r2])
        /\ Len(rreq[r2].calls) >= 3 /\ rreq[r2].calls[2] = <<"photon", "none">>
        /\ SourceOf(rreq[r2]) = "nominatim"

StageRank(stage) ==
    CASE stage = "cache_lookup" -> 1
      [] stage = "photon" -> 2
      [] stage = "nominatim" -> 3
      [] OTHER -> 4

\* C6: within one request the stages run in the order cache lookup,
\* provider A, provider B, each at most once; provider A only right after a
\* cache miss and provider B only right after provider A gave nothing.
C6_StageOrder ==
    \A r \in Requests :
        LET calls == rreq[r].calls
            st == StagesOf(rreq[r])
        IN  /\ \A i, j \in DOMAIN st :
                  (i < j /\ StageRank(st[j]) <= 3) => StageRank(st[i]) < StageRank(st[j])
            /\ \A i \in DOMAIN st :
                  /\ st[i] = "cache_lookup" => i = 1
                  /\ st[i] = "photon" =>
                        (i = 2 /\ calls[1] = <<"cache_lookup", "miss">>)
                  /\ st[i] = "nominatim" =>
                        (i = 3 /\ calls[2] = <<"photon", "none">>)
            /\ rreq[r].pc \notin {"idle", "lookup"} /\ NumericInRange(rreq[r])
                  => (calls # <<>> /\ st[1] = "cache_lookup")

\* C6 witness: a request that went through all three stages.
C6_Witness ==
    \E r \in Requests :
        /\ Len(rreq[r].calls) >= 3
        /\ SubSeq(StagesOf(rreq[r]), 1, 3) = <<"cache_lookup", "photon", "nominatim">>

\* C7: when the cache lookup finds a stored place whose coordinates rounded
\* to 4 decimals equal the query's, the request is answered at once with
\* that stored place and source = cache; no provider is called and nothing
\* is written.
C7_CacheHit ==
    \A r \in Requests :
        (rreq[r].calls # <<>> /\ rreq[r].calls[1] = <<"cache_lookup", "hit">>)
            => /\ rreq[r].pc = "done"
               /\ rreq[r].calls = << <<"cache_lookup", "hit">> >>
               /\ rreq[r].response[1].status = 200
               /\ \E i \in RowsAtRoundedCoordinate(locations, rreq[r].latitude[1],
                                                   rreq[r].longitude[1]) :
                     rreq[r].response[1].body =
                         [id |-> locations[i].id, name |-> locations[i].name,
                          address |-> locations[i].address,
                          latitude |-> locations[i].latitude,
                          longitude |-> locations[i].longitude,
                          type |-> locations[i].type, source |-> "cache"]

\* C7 witness: a request answered from the cache with a stored place whose
\* exact coordinates differ from the query's.
C7_Witness ==
    \E r \in Requests :
        /\ rreq[r].pc = "done"
        /\ rreq[r].calls = << <<"cache_lookup", "hit">> >>
        /\ SourceOf(rreq[r]) = "cache"
        /\ rreq[r].response[1].body.latitude # rreq[r].latitude

\* The decimal rendering, to 6 places, of the in-range query coordinates.
SixDecimals(v) ==
    CASE v = 146185787 -> <<"1", "4", ".", "6", "1", "8", "5", "7", "9">>
      [] v = -213 -> <<"-", "0", ".", "0", "0", "0", "0", "2", "1">>
      [] v = 1210566871 -> <<"1", "2", "1", ".", "0", "5", "6", "6", "8", "7">>
      [] v = 1800000000 -> <<"1", "8", "0", ".", "0", "0", "0", "0", "0", "0">>

\* C8: if the cache misses and both providers give nothing, the answer is
\* the fallback pin: source = fallback, name "Selected Location", the
\* request's own coordinates, the address echoing them to 6 decimals; no
\* cache row is written for it.
C8_FallbackPin ==
    \A r \in Requests :
        (Len(rreq[r].calls) >= 3
         /\ SubSeq(rreq[r].calls, 1, 3) = << <<"cache_lookup", "miss">>,
                                            <<"photon", "none">>,
                                            <<"nominatim", "none">> >>)
            => /\ rreq[r].pc = "done"
               /\ Len(rreq[r].calls) = 3
               /\ rreq[r].response[1].status = 200
               /\ SourceOf(rreq[r]) = "fallback"
               /\ rreq[r].response[1].body.name = SelectedLocation
               /\ rreq[r].response[1].body.latitude = rreq[r].latitude
               /\ rreq[r].response[1].body.longitude = rreq[r].longitude
               /\ rreq[r].response[1].body.address =
                      SixDecimals(rreq[r].latitude[1]) \o <<",", " ">>
                          \o SixDecimals(rreq[r].longitude[1])
               /\ \A i \in DOMAIN locations : locations[i].name # SelectedLocation

\* C8 witness: a fallback pin for the coordinate south of the equator and
\* one for a coordinate whose 7th decimal rounds the 6th up.
C8_Witness ==
    \E r1, r2 \in Requests :
        /\ rreq[r1].pc = "done" /\ rreq[r2].pc = "done"
        /\ rreq[r1].latitude = Some(-213) /\ rreq[r2].latitude = Some(146185787)
        /\ rreq[r1].response[1].status = 200 /\ rreq[r2].response[1].status = 200
        /\ SourceOf(rreq[r1]) = "fallback" /\ SourceOf(rreq[r2]) = "fallback"

\* The 4-decimal coordinate key of a cache row.
C13_CoordinateKey(row) ==
    <<RoundNumeric(row.latitude[1], 4), RoundNumeric(row.longitude[1], 4)>>

\* C13 (as claimed): in every reachable state, whatever the interleaving of
\* the reverse-geocode requests, no two rows of the locations cache share
\* their 4-decimal coordinate key and no two share their exact name and
\* address.  Refuted: cacheReverseGeocode checks and inserts in three
\* separate statements, so two requests can both pass both checks before
\* either inserts.
C13_NoDuplicateCacheRows ==
    \A i, j \in DOMAIN locations :
        i # j =>
            /\ C13_CoordinateKey(locations[i]) # C13_CoordinateKey(locations[j])
            /\ ~(locations[i].name = locations[j].name
                 /\ locations[i].address = locations[j].address)

\* C20: a request whose cache write failed after a provider gave a place is
\* answered 200 with that provider's result, its source the provider that
\* gave it: no error, no fallback pin.
C20_CacheWriteFailureSwallowed ==
    \A r \in Requests :
        LET calls == rreq[r].calls
            wrote == { i \in DOMAIN calls : calls[i] = <<"cache_write", "failed">> }
        IN  rreq[r].pc = "done" /\ wrote # {} =>
               /\ rreq[r].result # None
               /\ rreq[r].response = Some([status |-> 200, body |-> rreq[r].result[1]])
               /\ rreq[r].response[1].body.source =
                     IF \E i \in DOMAIN calls : calls[i] = <<"photon", "place">>
                     THEN "photon" ELSE "nominatim"
               /\ \E i \in DOMAIN calls :
                     calls[i] \in {<<"photon", "place">>, <<"nominatim", "place">>}

\* C20 witness: Photon gave no place, Nominatim gave one, the cache write
\* failed and the request was answered with the Nominatim result.
C20_Witness ==
    \E r \in Requests :
        /\ rreq[r].pc = "done"
        /\ <<"nominatim", "place">> \in { rreq[r].calls[i] : i \in DOMAIN rreq[r].calls }
        /\ rreq[r].calls[Len(rreq[r].calls)] = <<"cache_write", "failed">>
        /\ rreq[r].response[1].status = 200
        /\ rreq[r].response[1].body.source = "nominatim"

\* C21: every reverse-geocode request that was accepted eventually answers;
\* a provider call that never completes is cut off by its timeout and the
\* pipeline goes on.
C21_ReverseEventuallyAnswers ==
    \A r \in Requests : (rreq[r].pc = "lookup") ~> (rreq[r].pc = "done")

\* A request that a provider answered and whose cache write completed
\* without error.
C28_AnsweredAndCached(req) ==
    /\ req.pc = "done"
    /\ req.response[1].status = 200
    /\ req.response[1].body.source \in {"photon", "nominatim"}
    /\ \E k \in DOMAIN req.calls : req.calls[k] = <<"cache_write", "called">>
    /\ \A k \in DOMAIN req.calls : req.calls[k] # <<"cache_write", "failed">>

\* C28: when a request for a coordinate has been answered by a provider and
\* its cache write has completed without error, the cache lookup of a
\* later request for the same coordinate, unless the lookup itself fails,
\* answers the request from the cache: source = cache and no provider
\* call.
C28_SecondRequestFromCache ==
    [][\A r1, r2 \in Requests :
         (/\ r1 # r2
          /\ C28_AnsweredAndCached(rreq[r1])
          /\ rreq[r2].pc = "lookup"
          /\ rreq'[r2].pc # "lookup"
          /\ rreq[r2].latitude = rreq[r1].latitude
          /\ rreq[r2].longitude = rreq[r1].longitude
          /\ rreq'[r2].calls[Len(rreq'[r2].calls)] # <<"cache_lookup", "error">>)
         => /\ rreq'[r2].pc = "done"
            /\ rreq'[r2].response[1].body.source = "cache"]_vars

\* The requests whose cache lookup threw.
C29_LookupFailed ==
    { r \in Requests :
        \E k \in DOMAIN rreq[r].calls : rreq[r].calls[k] = <<"cache_lookup", "error">> }

\* C29: a request whose cache lookup fails is answered at once, 200 with
\* the pin-drop shape and source = error_fallback, carrying the request's
\* own coordinates; the failed lookup is the only stage of the request: no
\* provider is called and no cache write is made.
C29_LookupFailureAnswersErrorFallback ==
    \A r \in C29_LookupFailed :
        /\ rreq[r].pc = "done"
        /\ rreq[r].response # None
        /\ rreq[r].response[1].status = 200
        /\ rreq[r].response[1].body.source = "error_fallback"
        /\ rreq[r].response[1].body.type = "pin_drop"
        /\ rreq[r].response[1].body.name = SelectedLocation
        /\ rreq[r].response[1].body.latitude = rreq[r].latitude
        /\ rreq[r].response[1].body.longitude = rreq[r].longitude
        /\ rreq[r].calls = << <<"cache_lookup", "error">> >>
        /\ rreq[r].result = None

\* The second request's lookup fails while the first was answered by a
\* provider and cached: the cache still holds the first request's row only.
C29_Witness ==
    /\ 2 \in C29_LookupFailed
    /\ rreq[2].pc = "done"
    /\ rreq[2].response[1].body.source = "error_fallback"
    /\ C28_AnsweredAndCached(rreq[1])
    /\ Len(locations) = 1

(***************************************************************************)
(* Properties of the forward search                                        *)
(***************************************************************************)
SearchStatus == sreq.response[1].status
IdsOf(list) == { list[i].id : i \in DOMAIN list }
AnswerIds == IdsOf(sreq.response[1].body)
ProviderFailures == {"network_error", "http_error", "bad_json"}

\* The providers the request has called, and those whose call failed.
ProvidersCalled == { c[1] : c \in sreq.calls } \cap {"photon", "nominatim"}
ProviderFailed(provider) ==
    \E c \in sreq.calls : c[1] = provider /\ c[2] \in ProviderFailures

\* The candidates of the providers whose call did not fail.
RemainingCandidates ==
    (IF ProviderFailed("photon") THEN <<>> ELSE sreq.photonResults[1])
        \o (IF ProviderFailed("nominatim") THEN <<>> ELSE sreq.nominatimResults[1])

\* The answer is the first SearchLimit entries of a ranking of list: all of
\* it when it is no longer than that.
AnswerTakenFrom(list) ==
    /\ Len(sreq.response[1].body) = Min2(SearchLimit, Len(list))
    /\ AnswerIds \subseteq IdsOf(list)
    /\ Len(list) <= SearchLimit => AnswerIds = IdsOf(list)

C3_NameKey(c) == toLowerCase(c.name)
C3_Rounded(x) == IF x = NaN THEN NaN ELSE Some(RoundNumeric(x[1], 4))
C3_CoordKey(c) == <<C3_Rounded(c.latitude), C3_Rounded(c.longitude)>>

\* The list kept when a candidate is dropped if and only if its name key or
\* its coordinate key equals the corresponding key of an accepted one.
RECURSIVE C3_Accept(_, _)
C3_Accept(accepted, candidates) ==
    IF candidates = <<>> THEN accepted
    ELSE LET c == Head(candidates)
         IN  IF \E i \in DOMAIN accepted :
                    \/ C3_NameKey(accepted[i]) = C3_NameKey(c)
                    \/ C3_CoordKey(accepted[i]) = C3_CoordKey(c)
             THEN C3_Accept(accepted, Tail(candidates))
             ELSE C3_Accept(Append(accepted, c), Tail(candidates))

\* C3 (as claimed): the merged list of an answered search is the local rows
\* followed by exactly those provider candidates, Photon's before
\* Nominatim's, whose case-folded name and whose coordinate rounded to 4
\* decimals both differ from the corresponding key of every candidate
\* accepted before them.  Refuted: mergeResults keeps both kinds of key in
\* one set, so a candidate named by the text of an accepted coordinate key
\* is dropped although neither of its keys equals the corresponding key of
\* an accepted candidate.
C3_DroppedIffCorrespondingKeyTaken ==
    sreq.pc = "done" /\ SearchStatus = 200 =>
        IdsOf(sreq.allResults) =
            IdsOf(C3_Accept(sreq.localResults,
                            sreq.photonResults[1] \o sreq.nominatimResults[1]))

\* C10: a provider is called only after the Local Store gave fewer than 5
\* rows; an answered search whose store gave 5 or more rows called no
\* provider and answers with exactly the local rows; one whose store gave
\* fewer called both providers, and its answer is taken from the local
\* rows followed by the provider candidates the merge accepted, the first
\* Photon candidate among them when its keys are new.
C10_ProvidersIffLowCoverage ==
    /\ ProvidersCalled # {} =>
          <<"local", "rows">> \in sreq.calls /\ Len(sreq.localResults) < 5
    /\ sreq.pc = "done" /\ <<"local", "rows">> \in sreq.calls =>
          IF Len(sreq.localResults) >= 5
          THEN /\ ProvidersCalled = {}
               /\ SearchStatus = 200
               /\ AnswerIds = IdsOf(sreq.localResults)
          ELSE /\ ProvidersCalled = {"photon", "nominatim"}
               /\ SearchStatus = 200 =>
                     /\ AnswerTakenFrom(sreq.allResults)
                     /\ IdsOf(sreq.localResults) \subseteq IdsOf(sreq.allResults)
                     /\ IdsOf(sreq.allResults) \subseteq
                           IdsOf(sreq.localResults) \cup IdsOf(sreq.photonResults[1])
                               \cup IdsOf(sreq.nominatimResults[1])
                     /\ \A c \in { sreq.photonResults[1][i] : i \in {1} \cap DOMAIN sreq.photonResults[1] } :
                           {toLowerCase(c.name), CoordKey(c)} \cap SeenOfLocal(sreq.localResults) = {}
                              => c.id \in IdsOf(sreq.allResults)

\* C10 witness: the store gave rows, fewer than 5, both providers were called
\* and the answer holds the local rows with a Photon and a Nominatim
\* candidate.
C10_Witness ==
    /\ sreq.pc = "done"
    /\ SearchStatus = 200
    /\ Len(sreq.localResults) \in 1..4
    /\ ProvidersCalled = {"photon", "nominatim"}
    /\ \E id \in AnswerIds : id[1] = "photon_"
    /\ \E id \in AnswerIds : id[1] = "nominatim_"

\* C10 witness of the other side: the store gave 5 rows and the answer is
\* those rows.
C10_WitnessCovered ==
    /\ sreq.pc = "done"
    /\ SearchStatus = 200
    /\ Len(sreq.localResults) = 5
    /\ ProvidersCalled = {}

\* A provider answered with a body that parses but holds an entry without
\* coordinates.
MalformedProviderAnswer ==
    \E i \in DOMAIN RemainingCandidates : KeyThrows(RemainingCandidates[i])

\* C11 (as claimed): a search whose Local Store answered ends with status
\* 200 whatever the providers sent, in particular when a provider answer
\* was received but malformed.  Refuted: a Photon feature with an empty
\* coordinate pair passes searchPhoton as a Location without latitude, and
\* mergeResults reads latitude.toFixed of it outside any provider catch, so
\* the handler's catch answers 500.
C11_MalformedAnswerAbsorbed ==
    sreq.pc = "done" /\ <<"local", "rows">> \in sreq.calls => SearchStatus = 200

\* C12 (as claimed): once the Local Store has answered, the search
\* eventually answers, a provider call that has not returned being cut off
\* by its timeout.  Refuted: searchPhoton and searchNominatim await fetch
\* with no AbortController and no timer, and Promise.all waits for both, so
\* a provider that never answers keeps the request waiting for good.
C12_SearchEventuallyAnswers ==
    (<<"local", "rows">> \in sreq.calls) ~> (sreq.pc = "done")

\* What identifies an entry of a candidate list, whatever was attached to it.
EntryOf(item) == <<item.id, item.name, item.address, item.latitude, item.longitude>>
EntriesOf(list) == [i \in DOMAIN list |-> EntryOf(list[i])]

\* sub is full with some entries left out, the order kept.
RECURSIVE IsSubsequence(_, _)
IsSubsequence(sub, full) ==
    IF sub = <<>> THEN TRUE
    ELSE IF full = <<>> THEN FALSE
    ELSE IF Head(sub) = Head(full) THEN IsSubsequence(Tail(sub), Tail(full))
    ELSE IsSubsequence(sub, Tail(full))

\* C15: the merged list of an answered search is the whole local list in
\* its order, then Photon candidates in Photon's order, then Nominatim
\* candidates in Nominatim's order, the entries themselves unchanged.  The
\* lists are the ones Promise.all returns by position, so the states reached
\* with Photon settling first and with Nominatim settling first are all
\* covered.
C15_MergeOrder ==
    sreq.pc = "done" /\ SearchStatus = 200 =>
        LET merged == EntriesOf(sreq.allResults)
            n == Len(sreq.localResults)
        IN  /\ Len(merged) >= n
            /\ SubSeq(merged, 1, n) = EntriesOf(sreq.localResults)
            /\ \E k \in n..Len(merged) :
                  /\ \A i \in (n + 1)..k : merged[i][1][1] = "photon_"
                  /\ \A i \in (k + 1)..Len(merged) : merged[i][1][1] = "nominatim_"
                  /\ IsSubsequence(SubSeq(merged, n + 1, k),
                                   EntriesOf(sreq.photonResults[1]))
                  /\ IsSubsequence(SubSeq(merged, k + 1, Len(merged)),
                                   EntriesOf(sreq.nominatimResults[1]))

\* C15 witness: an answered search whose first two local rows share their
\* keys and whose merged list holds them both, then a Photon candidate,
\* then a Nominatim candidate.
C15_Witness ==
    /\ sreq.pc = "done"
    /\ SearchStatus = 200
    /\ Len(sreq.localResults) = 2
    /\ toLowerCase(sreq.localResults[1].name) = toLowerCase(sreq.localResults[2].name)
    /\ Len(sreq.allResults) = 4
    /\ sreq.allResults[3].id[1] = "photon_"
    /\ sreq.allResults[4].id[1] = "nominatim_"

\* The position of the candidate with this id in the merged list.
MergeIndex(id) == CHOOSE i \in DOMAIN sreq.allResults : sreq.allResults[i].id = id

\* C16: the ranked list of an answered search holds exactly the merged
\* candidates, each once and unchanged; its composite scores never
\* increase, and of two candidates with the same composite score the one
\* merged first comes first; the answer is its first 10 entries.
C16_RankedStableAndCut ==
    sreq.pc = "done" /\ SearchStatus = 200 =>
        LET ranked == sreq.rankedResults
            body == sreq.response[1].body
        IN  /\ Len(ranked) = Len(sreq.allResults)
            /\ \A i \in DOMAIN sreq.allResults :
                  Cardinality({ j \in DOMAIN ranked :
                                  EntryOf(ranked[j]) = EntryOf(sreq.allResults[i]) }) = 1
            /\ \A i, j \in DOMAIN ranked :
                  i < j =>
                     /\ ranked[i].final_score # NaN
                     /\ ranked[j].final_score # NaN
                     /\ ranked[i].final_score[1] >= ranked[j].final_score[1]
                     /\ ranked[i].final_score = ranked[j].final_score
                           => MergeIndex(ranked[i].id) < MergeIndex(ranked[j].id)
            /\ Len(body) = Min2(10, Len(ranked))
            /\ body = SubSeq(ranked, 1, Len(body))

\* C16 witness: more than 10 candidates were merged, the answer holds 10,
\* two of them with the same composite score, and the ranking moved a
\* candidate in front of one merged before it.
C16_Witness ==
    /\ sreq.pc = "done"
    /\ SearchStatus = 200
    /\ Len(sreq.rankedResults) > 10
    /\ Len(sreq.response[1].body) = 10
    /\ \E i, j \in 1..10 :
          /\ i < j
          /\ sreq.rankedResults[i].final_score = sreq.rankedResults[j].final_score
    /\ \E i, j \in 1..10 :
          /\ i < j
          /\ MergeIndex(sreq.rankedResults[i].id) > MergeIndex(sreq.rankedResults[j].id)

\* A sub-score, in thousandths, lies in [0,1].
InUnitRange(score) == score \in 0..1000

\* C17: every candidate ranked by an answered search has its four
\* sub-scores in [0,1] and a composite score that is 0.35 text + 0.30
\* proximity + 0.20 popularity + 0.15 personalization, the weights adding
\* up to 1, so the composite lies in [0,1] too.
C17_ScoresInUnitRange ==
    /\ WEIGHTS.text + WEIGHTS.proximity + WEIGHTS.popularity + WEIGHTS.user = 100
    /\ sreq.pc = "done" /\ SearchStatus = 200 =>
          \A i \in DOMAIN sreq.rankedResults :
             LET r == sreq.rankedResults[i]
             IN  /\ InUnitRange(r.text_score)
                 /\ r.proximity_score # NaN
                 /\ InUnitRange(r.proximity_score[1])
                 /\ InUnitRange(r.popularity_score)
                 /\ InUnitRange(r.user_score)
                 /\ r.final_score # NaN
                 /\ r.final_score[1] = 35 * r.text_score + 30 * r.proximity_score[1]
                                         + 20 * r.popularity_score + 15 * r.user_score
                 /\ r.final_score[1] \in 0..100000

\* The ladder of the claim on case-folded name n and query q: the first
\* rule that matches decides.
C22_Ladder(n, q) ==
    LET occurs(i) == i + Len(q) - 1 <= Len(n) /\ SubSeq(n, i, i + Len(q) - 1) = q
        wordStart(i) == ~IsSpace(n[i]) /\ (i = 1 \/ IsSpace(n[i - 1]))
    IN  IF n = q THEN 1000
        ELSE IF occurs(1) THEN 800
        ELSE IF \E i \in DOMAIN n : occurs(i) THEN 600
        ELSE IF \E i \in DOMAIN n : wordStart(i) /\ occurs(i) THEN 500
        ELSE 300

C22_Jollibee == <<"j", "o", "l", "l", "i", "b", "e", "e">>

\* C22: the text sub-score of every ranked candidate that came without a
\* similarity value is the ladder's value for its name and the query,
\* compared case-insensitively: 1.0 equal, 0.8 prefix, 0.6 substring, 0.5 a
\* word starts with the query, else 0.3; "jollibee" scores 1.0 against
\* "Jollibee", 0.8 against "Jollibee Ortigas" and 0.6 against "SM Jollibee
\* Branch".
C22_TextScoreLadder ==
    /\ calculateTextScore([name |-> <<"J">> \o Tail(C22_Jollibee)], C22_Jollibee) = 1000
    /\ calculateTextScore([name |-> <<"J">> \o Tail(C22_Jollibee)
                                     \o <<" ", "O", "r", "t", "i", "g", "a", "s">>],
                          C22_Jollibee) = 800
    /\ calculateTextScore([name |-> <<"S", "M", " ", "J">> \o Tail(C22_Jollibee)
                                     \o <<" ", "B", "r", "a", "n", "c", "h">>],
                          C22_Jollibee) = 600
    /\ sreq.pc = "done" /\ SearchStatus = 200 =>
          \A i \in DOMAIN sreq.rankedResults :
             LET r == sreq.rankedResults[i]
             IN  sreq.allResults[MergeIndex(r.id)].text_score = None =>
                    r.text_score = C22_Ladder(toLowerCase(r.name), toLowerCase(sreq.query))

\* C22 witness: an answered search without a user location ranked
\* candidates on four rungs of the ladder, "Sm" among those at 1.0.
C22_Witness ==
    /\ sreq.pc = "done"
    /\ SearchStatus = 200
    /\ ~sreq.hasUserLocation
    /\ { sreq.rankedResults[i].text_score : i \in DOMAIN sreq.rankedResults }
          = {1000, 800, 600, 300}
    /\ \E i \in DOMAIN sreq.rankedResults :
          /\ sreq.rankedResults[i].name = <<"S", "m">>
          /\ sreq.rankedResults[i].text_score = 1000

\* C23: a ranked candidate for which the data source supplied a similarity
\* value (every row of the proximity-aware Local Store search) has that
\* value as its text sub-score.
C23_SuppliedSimilarityUsed ==
    sreq.pc = "done" /\ SearchStatus = 200 =>
        \A i \in DOMAIN sreq.rankedResults :
           LET r == sreq.rankedResults[i]
               supplied == sreq.allResults[MergeIndex(r.id)].text_score
           IN  supplied # None => r.text_score = supplied[1]

\* The saved-place rows the preference lookup of the request gave: none
\* without a user identity and none when the lookup failed.
C24_SavedRows ==
    IF sreq.prefs = None \/ sreq.prefs[1].kind # "ok" THEN <<>> ELSE sreq.prefs[1].rows

\* C24: in an answered search the personalization sub-score of a candidate
\* is 1.0 when its identifier is that of a saved place of the user, else
\* 0.6 when it is that of a place used more than 3 times, else 0; without
\* a user identity and after a failed preference lookup it is 0 for every
\* candidate, and a failed lookup does not fail the request.
C24_PersonalizationScore ==
    sreq.pc = "done" =>
        /\ sreq.prefs # None => SearchStatus = 200
        /\ SearchStatus = 200 =>
              \A i \in DOMAIN sreq.rankedResults :
                 LET r == sreq.rankedResults[i]
                     rows == C24_SavedRows
                     saved == \E k \in DOMAIN rows : rows[k].id = r.id
                     frequent == \E k \in DOMAIN rows :
                                    rows[k].id = r.id /\ rows[k].use_count > 3
                 IN  /\ r.user_score = IF saved THEN 1000
                                        ELSE IF frequent THEN 600 ELSE 0
                     /\ (sreq.userId = None \/ sreq.prefs[1].kind = "error")
                           => r.user_score = 0

\* C24 witness: a logged-in user's search ranked a saved place at 1.0 beside
\* a candidate at 0.
C24_Witness ==
    /\ sreq.pc = "done"
    /\ SearchStatus = 200
    /\ sreq.userId # None
    /\ \E i, j \in DOMAIN sreq.rankedResults :
          /\ sreq.rankedResults[i].user_score = 1000
          /\ sreq.rankedResults[j].user_score = 0

\* C24 witness of the failed lookup: the preference query of a logged-in
\* user failed and the search answered 200 with candidates.
C24_WitnessLookupFailed ==
    /\ sreq.pc = "done"
    /\ sreq.prefs # None
    /\ sreq.prefs[1].kind = "error"
    /\ SearchStatus = 200
    /\ sreq.rankedResults # <<>>

\* C30: the frequent places of every preference lookup are among its saved
\* places, and the personalization sub-score of every ranked candidate of
\* an answered search is 0 or 1.0, never 0.6.
C30_FrequentWithinSaved ==
    /\ \A out \in PrefsOutcomes :
          getUserPlacePreferences(out).frequentPlaces
              \subseteq getUserPlacePreferences(out).savedPlaces
    /\ sreq.pc = "done" /\ SearchStatus = 200 =>
          /\ sreq.prefs # None =>
                getUserPlacePreferences(sreq.prefs[1]).frequentPlaces
                    \subseteq getUserPlacePreferences(sreq.prefs[1]).savedPlaces
          /\ \A i \in DOMAIN sreq.rankedResults :
                sreq.rankedResults[i].user_score \in {0, 1000}

\* C30 witness: a place the user has used more than 3 times was ranked,
\* with personalization 1.0.
C30_Witness ==
    /\ sreq.pc = "done"
    /\ SearchStatus = 200
    /\ sreq.prefs # None
    /\ sreq.prefs[1].kind = "ok"
    /\ \E k \in DOMAIN sreq.prefs[1].rows, i \in DOMAIN sreq.rankedResults :
          /\ sreq.prefs[1].rows[k].use_count > 3
          /\ sreq.rankedResults[i].id = sreq.prefs[1].rows[k].id
          /\ sreq.rankedResults[i].user_score = 1000

(***************************************************************************)
(* Properties of the coordinate validator                                  *)
(***************************************************************************)
\* An Overpass call of the validation failed: error, timeout, non-success
\* status or unparsable body.
SourceFailed ==
    \E i \in DOMAIN vreq.calls :
        /\ vreq.calls[i][1] \in {"isOnRoad", "findNearestRoad"}
        /\ vreq.calls[i][2] \in FailureKinds

\* C9: a finished validation always has a result, and when any of its calls
\* to the road-proximity source failed (in the on-road check or in the
\* nearest-road search) the result is the input coordinate, adjusted =
\* false, source = original.
C9_ValidatorFailsOpen ==
    vreq.pc = "done" =>
        /\ vreq.result # None
        /\ SourceFailed =>
              /\ vreq.result[1].latitude = vreq.latitude
              /\ vreq.result[1].longitude = vreq.longitude
              /\ vreq.result[1].adjusted = FALSE
              /\ vreq.result[1].source = "original"

\* C9 witness: the on-road check found no road, the nearest-road search
\* failed, and the validation finished with the input coordinate.
C9_Witness ==
    /\ vreq.pc = "done"
    /\ Len(vreq.calls) = 2
    /\ vreq.calls[1] = <<"isOnRoad", "ok">>
    /\ vreq.calls[2][1] = "findNearestRoad"
    /\ vreq.calls[2][2] \in FailureKinds
    /\ vreq.result = Some(OriginalResult(vreq.latitude, vreq.longitude))
\* The category table of the claim: the types and their maximum snap
\* distance in metres.
CategoryTable ==
    { << <<"s", "c", "h", "o", "o", "l">>, 100 >>,
      << <<"u", "n", "i", "v", "e", "r", "s", "i", "t", "y">>, 100 >>,
      << <<"c", "o", "l", "l", "e", "g", "e">>, 100 >>,
      << <<"m", "a", "l", "l">>, 150 >>,
      << <<"s", "h", "o", "p", "p", "i", "n", "g", "_", "c", "e", "n", "t", "r", "e">>, 150 >>,
      << <<"s", "u", "p", "e", "r", "m", "a", "r", "k", "e", "t">>, 100 >>,
      << <<"a", "i", "r", "p", "o", "r", "t">>, 200 >>,
      << <<"a", "e", "r", "o", "d", "r", "o", "m", "e">>, 200 >>,
      << <<"s", "t", "a", "t", "i", "o", "n">>, 50 >>,
      << <<"r", "a", "i", "l", "w", "a", "y", "_", "s", "t", "a", "t", "i", "o", "n">>, 50 >>,
      << <<"s", "u", "b", "w", "a", "y", "_", "e", "n", "t", "r", "a", "n", "c", "e">>, 50 >>,
      << <<"h", "o", "s", "p", "i", "t", "a", "l">>, 100 >>,
      << <<"c", "a", "f", "e">>, 50 >> }

\* C18: the rules give each category the maximum snap distance of the
\* table (50 m for a category the table does not hold), and a finished
\* validation with adjusted = true records a snap distance that is at most
\* the maximum of the request's category.
C18_SnapWithinCategoryMaximum ==
    /\ \A row \in CategoryTable :
          getValidationRules([kind |-> "string", value |-> row[1]]) = row[2]
    /\ vreq.pc = "done" /\ vreq.result[1].adjusted =>
          vreq.result[1].distance_meters[1] <= vreq.maxSnapDistance

\* C19: the result of a finished validation is well formed.  Either it is
\* adjusted = false, source = original, the input coordinate and no
\* distance, or it is adjusted = true, source = road_snapped, a coordinate
\* and its distance in metres from the input.  It is the first when the
\* on-road check said the coordinate is on a road and when the search found
\* no road within the maximum of the category; when the search found a road
\* point it is the second, with that point and its distance.
C19_ResultWellFormed ==
    vreq.pc = "done" =>
        LET result == vreq.result[1]
            original == /\ result.adjusted = FALSE
                        /\ result.source = "original"
                        /\ result.latitude = vreq.latitude
                        /\ result.longitude = vreq.longitude
                        /\ result.distance_meters = None
            snapped == /\ result.adjusted = TRUE
                       /\ result.source = "road_snapped"
                       /\ result.distance_meters # None
                       /\ result.distance_meters[1]
                             = haversineMeters(vreq.latitude, vreq.longitude,
                                               result.latitude, result.longitude)
        IN  /\ original \/ snapped
            /\ vreq.onRoad = Some(TRUE) => original
            /\ vreq.onRoad = Some(FALSE) /\ vreq.nearestRoad = None => original
            /\ vreq.nearestRoad # None =>
                  /\ snapped
                  /\ result.latitude = vreq.nearestRoad[1].lat
                  /\ result.longitude = vreq.nearestRoad[1].lon
                  /\ result.distance_meters = Some(vreq.nearestRoad[1].distance)

\* C19 witness: the on-road check found no road within 20 m, the search
\* found a road point, and the validation finished snapped to it.
C19_Witness ==
    /\ vreq.pc = "done"
    /\ vreq.calls = << <<"isOnRoad", "ok">>, <<"findNearestRoad", "ok">> >>
    /\ vreq.onRoad = Some(FALSE)
    /\ vreq.nearestRoad # None
    /\ vreq.result[1].adjusted
    /\ vreq.result[1].source = "road_snapped"
    /\ vreq.result[1].distance_meters # None
    /\ vreq.result[1].distance_meters[1] > 0
====
